---- MODULE Spec2Model ----
(***************************************************************************)
(* Model of the kernel plugin manager (toKernelPluginManager.ts): the      *)
(* composition of a sudo and a regular validator, the selection of the     *)
(* signing mode, the enable-signature cache and the nonce key; of the      *)
(* passkey validator and the ECDSA kernel smart account; and of the        *)
(* multi-chain dummy signature with its Merkle tree.                       *)
(*                                                                         *)
(* Hex values are sequences of bytes (0..255).  An optional value is a     *)
(* sequence of length 0 (undefined) or 1 (the value): the Hex "0x" is the  *)
(* defined, empty byte string <<>> wrapped as << <<>> >>.                  *)
(***************************************************************************)
EXTENDS Integers, Sequences, FiniteSets, TLC

VARIABLES
    params,                 \* the KernelPluginManagerParams given to toKernelPluginManager
    phase,                  \* "new" | "ready" | "failed"
    executorData,           \* the closure's executorData after lines 65-69
    pluginEnableSignature,  \* the closure's (mutable) pluginEnableSignature
    chain,                  \* the on-chain state the manager reads
    typedSigns,             \* number of sudo.signTypedData invocations so far
    keys,                   \* nonce keys returned so far, per validator mode
    last,                   \* record of the last call on the manager
    pk,                     \* the passkey validator built by one of its constructors
    ec,                     \* the ECDSA kernel smart account and the chain it reads
    vlast,                  \* record of the last call on a validator or account
    mk,                     \* an invocation of getMultiUserOpDummySignature
    flights                 \* the getPluginEnableSignature calls suspended at an await

managerVars == <<params, phase, executorData, pluginEnableSignature, chain,
                 typedSigns, keys, last, flights>>
validatorVars == <<pk, ec, vlast>>
vars == <<params, phase, executorData, pluginEnableSignature, chain,
          typedSigns, keys, last, pk, ec, vlast, mk, flights>>

----------------------------------------------------------------------------
(* Bounds *)

MaxTypedSigns == 2          \* cap on counted sudo.signTypedData invocations
MaxValidatorNonce == 1      \* cap on the account's on-chain validator nonce
MaxFlights == 2             \* cap on overlapping getPluginEnableSignature calls

----------------------------------------------------------------------------
(* Bytes and optional values *)

None == <<>>
Some(x) == <<x>>
IsSome(o) == Len(o) = 1
Get(o) == o[1]

\* JavaScript truthiness of an optional Hex: only undefined is falsy, the
\* string "0x" (empty bytes) is a non-empty string and so is truthy.
Truthy(o) == IsSome(o)

\* !hex for a value of type Hex: every Hex string, "0x" included, is a
\* non-empty JavaScript string, so the negation is never true
IsFalsyHex(hex) == FALSE

Rep(n, b) == [i \in 1..n |-> b]

\* viem concat / concatHex
concatHex(parts) ==
    LET RECURSIVE cat(_)
        cat(k) == IF k = 0 THEN <<>> ELSE cat(k - 1) \o parts[k]
    IN cat(Len(parts))

\* viem toHex(bigint): the minimal big-endian bytes of a number ("0x0" for 0,
\* which pads like the empty string)
RECURSIVE toHex(_)
toHex(n) == IF n = 0 THEN <<>> ELSE toHex(n \div 256) \o <<n % 256>>

\* viem pad(hex, {size}) (dir "left"): an optional result, None when the
\* value is longer than size (SizeExceedsPaddingSizeError)
pad(hex, size) ==
    IF Len(hex) > size THEN None
    ELSE Some(Rep(size - Len(hex), 0) \o hex)

\* BigInt(hex): a big integer, kept as its big-endian digits with no leading
\* zero byte (the integers here do not fit a machine word)
RECURSIVE BigInt(_)
BigInt(hex) ==
    IF hex = <<>> THEN <<>>
    ELSE IF hex[1] = 0 THEN BigInt(Tail(hex))
    ELSE hex

\* userOperation.callData.toString().slice(0, 10): "0x" and 8 hex digits
slice10(callData) ==
    IF Len(callData) <= 4 THEN callData ELSE SubSeq(callData, 1, 4)

\* a length-prefixed field of a structured encoding
LP(x) == <<Len(x)>> \o x

----------------------------------------------------------------------------
(* Constants of the program *)

zeroAddress == Rep(20, 0)

ValidatorMode_sudo == <<0, 0, 0, 0>>
ValidatorMode_plugin == <<0, 0, 0, 1>>
ValidatorMode_enable == <<0, 0, 0, 2>>

VALIDATOR_MODE_DEFAULT == <<0>>
VALIDATOR_MODE_ENABLE == <<1>>

VALIDATOR_TYPE ==
    [SUDO |-> <<0>>, SECONDARY |-> <<1>>, PERMISSION |-> <<2>>]

Selector06 == <<81, 148, 84, 71>>
Selector07 == <<233, 174, 92, 83>>
getActionSelector(version) ==
    IF version = "v0.6" THEN Selector06 ELSE Selector07

ErrNoValidator == "One of sudo or regular validator must be set"
ErrExecutorData == "Executor data must be set"
ErrEnableSignature == "Enable signature not set"
ErrRegularNotSet == "regular validator not set"
ErrSudoNotSet == "sudo validator not set"
ErrSizeExceedsPadding == "SizeExceedsPaddingSizeError"
ErrValidator == "validator signing failed"
ErrRead == "contract read failed"

ENTRYPOINT_ADDRESS_V06 ==
    <<95, 241, 55, 212, 176, 253, 205, 73, 220, 163, 12, 124, 245, 126, 87,
      138, 2, 109, 39, 137>>
ENTRYPOINT_ADDRESS_V07 ==
    <<0, 0, 0, 0, 113, 114, 125, 226, 46, 94, 157, 139, 175, 14, 218, 198,
      243, 125, 160, 50>>

----------------------------------------------------------------------------
(* Hashes and ABI encoding *)

\* a 32-byte hash value: either the hash of the listed preimage fields or
\* the hash of a sorted pair of hash values.  Two values are equal exactly
\* when they hash the same preimage, so the hash is collision free.
Hash32(fields) == [leaf |-> fields, pair |-> {}]

\* permissionless getUserOperationHash({userOperation, entryPoint, chainId})
getUserOperationHash(userOperation, entryPoint, chainId) ==
    Hash32(<<userOperation.sender, userOperation.callData, entryPoint, toHex(chainId)>>)

\* one byte of a hash value, for the signatures computed over it
digestByte(h) ==
    (h.leaf[1][1] + h.leaf[2][Len(h.leaf[2])] + h.leaf[3][1] + h.leaf[4][1]) % 256

\* a uint256 given by its big-endian digits, as one 32-byte ABI word
abiWord(digits) == Get(pad(digits, 32))

\* a dynamic bytes or string value: its length word, then the data padded
\* on the right to a multiple of 32 bytes
padRight32(b) == b \o Rep((32 - (Len(b) % 32)) % 32, 0)
abiDynamic(b) == abiWord(toHex(Len(b))) \o padRight32(b)

----------------------------------------------------------------------------
(* The passkey (WebAuthn) validator *)

WEBAUTHN_VALIDATOR_ADDRESS == Rep(20, 87)

ErrRegistrationNotVerified == "Registration not verified"
ErrLoginNotVerified == "Login not verified"
ErrNoPublicKey == "No public key returned"
ErrSignatureNotVerified == "Signature not verified"
ErrSignTransactionNotSupported == "SignTransactionNotSupportedBySmartAccount"

\* the order of the signature curve, scaled down to two bytes, and its half
\* (curveOrder / 2n)
CurveOrder == 65521
HalfCurveOrder == CurveOrder \div 2

\* the pieces of a serialized client-data JSON, as ASCII bytes:
\*   {"type":"webauthn.get","challenge":"  ","origin":"  "}
\* and the ending of a JSON that carries a crossOrigin member
JsonHead ==
    <<123, 34, 116, 121, 112, 101, 34, 58, 34, 119, 101, 98, 97, 117, 116, 104,
      110, 46, 103, 101, 116, 34, 44, 34, 99, 104, 97, 108, 108, 101, 110, 103,
      101, 34, 58, 34>>
JsonOrigin == <<34, 44, 34, 111, 114, 105, 103, 105, 110, 34, 58, 34>>
JsonEnd == <<34, 125>>
JsonCrossOrigin ==
    <<34, 44, 34, 99, 114, 111, 115, 115, 79, 114, 105, 103, 105, 110, 34, 58,
      102, 97, 108, 115, 101, 125>>
OriginExample ==
    <<104, 116, 116, 112, 115, 58, 47, 47, 101, 120, 97, 109, 112, 108, 101,
      46, 99, 111, 109>>
TypeField ==
    <<34, 116, 121, 112, 101, 34, 58, 34, 119, 101, 98, 97, 117, 116, 104, 110,
      46, 103, 101, 116, 34>>

\* the client-data JSON the browser serializes for an assertion
serializeClientData(challenge, origin, crossOrigin) ==
    JsonHead \o challenge \o JsonOrigin \o origin
        \o (IF crossOrigin THEN JsonCrossOrigin ELSE JsonEnd)

\* the values of getDummySignature
DummyAuthenticatorData == Rep(37, 255)
DummyClientDataJSON == serializeClientData(Rep(43, 97), OriginExample, FALSE)
maxUint256 == Rep(32, 255)
DummyR ==
    <<24, 144, 170, 128, 190, 56, 81, 2, 8, 55, 1, 162, 144, 112, 102, 248,
      189, 159, 42, 40, 183, 23, 103, 28, 113, 199, 28, 113, 199, 28, 113, 199>>
DummyS ==
    <<49, 33, 85, 1, 124, 112, 162, 4, 16, 110, 3, 69, 32, 224, 205, 241,
      123, 62, 84, 81, 110, 46, 206, 56, 227, 142, 56, 227, 142, 56, 227, 142>>

\* what the authenticator and the passkey server return for one signing
\* ceremony: the sign-verify verdict, the authenticator data, the
\* client-data JSON (both already decoded from base64) and the signature;
\* a ceremony that is not verified carries none of these
AuthenticatorDatas == {Rep(37, 73), Rep(37, 73) \o Rep(33, 1)}
ClientDataJSONs ==
    {serializeClientData(Rep(43, 98), OriginExample, FALSE),
     serializeClientData(Rep(43, 98), OriginExample, TRUE)}
RelaySignatures ==
    [r : {1, 300}, s : {1, HalfCurveOrder, HalfCurveOrder + 1, CurveOrder - 1}]
FailedCeremony ==
    [success |-> FALSE, authenticatorData |-> <<>>, clientDataJSON |-> <<>>,
     signature |-> [r |-> 0, s |-> 0]]
Ceremonies ==
    [success : {TRUE}, authenticatorData : AuthenticatorDatas,
     clientDataJSON : ClientDataJSONs, signature : RelaySignatures]
        \cup {FailedCeremony}

\* results of the validators' and accounts' async functions: a value or a
\* thrown error, and the steps taken in order
Ok(v, t) == [ok |-> TRUE, err |-> "", val |-> v, trace |-> t]
Fail(e, t) == [ok |-> FALSE, err |-> e, val |-> <<>>, trace |-> t]

\* findQuoteIndices(clientDataJSON).beforeType: the index of the last
\* occurrence of the "type" member in the JSON text, -1 when there is none
findQuoteIndices(json) ==
    LET at == {i \in 0..(Len(json) - Len(TypeField)) :
                   SubSeq(json, i + 1, i + Len(TypeField)) = TypeField}
    IN [beforeType |-> IF at = {} THEN -1
                       ELSE CHOOSE i \in at : \A j \in at : j <= i]

\* parseAndNormalizeSig(signatureHex): r and s of the relay's signature, s
\* brought to the lower half of the curve order
parseAndNormalizeSig(signature) ==
    [r |-> signature.r,
     s |-> IF signature.s > HalfCurveOrder
           THEN CurveOrder - signature.s
           ELSE signature.s]

\* encodeAbiParameters for (bytes authenticatorData, string clientDataJSON,
\* uint256 responseTypeLocation, uint256 r, uint256 s): five head words (two
\* offsets and three values), then the two dynamic values
encodeWebAuthnSignature(authenticatorData, clientDataJSON, responseTypeLocation, r, s) ==
    concatHex(<<abiWord(toHex(160)),
                abiWord(toHex(160 + Len(abiDynamic(authenticatorData)))),
                abiWord(responseTypeLocation),
                abiWord(r),
                abiWord(s),
                abiDynamic(authenticatorData),
                abiDynamic(clientDataJSON)>>)

\* signMessage encoding the relay's s as it came
passkeySignMessage_RawS(ceremony) ==
    IF ~ceremony.success
    THEN Fail(ErrSignatureNotVerified,
              <<"sign-initiate", "startAuthentication", "sign-verify">>)
    ELSE Ok(encodeWebAuthnSignature(ceremony.authenticatorData,
                ceremony.clientDataJSON,
                toHex(findQuoteIndices(ceremony.clientDataJSON).beforeType),
                toHex(ceremony.signature.r), toHex(ceremony.signature.s)),
            <<"sign-initiate", "startAuthentication", "sign-verify",
              "findQuoteIndices", "parseAndNormalizeSig", "encodeAbiParameters">>)

\* the account's signMessage: sign-initiate, the authenticator's assertion,
\* sign-verify, and only for a verified assertion the encoding
passkeySignMessage(ceremony) ==
    IF ~ceremony.success
    THEN Fail(ErrSignatureNotVerified,
              <<"sign-initiate", "startAuthentication", "sign-verify">>)
    ELSE LET sig == parseAndNormalizeSig(ceremony.signature) IN
         Ok(encodeWebAuthnSignature(ceremony.authenticatorData,
                ceremony.clientDataJSON,
                toHex(findQuoteIndices(ceremony.clientDataJSON).beforeType),
                toHex(sig.r), toHex(sig.s)),
            <<"sign-initiate", "startAuthentication", "sign-verify",
              "findQuoteIndices", "parseAndNormalizeSig", "encodeAbiParameters">>)

\* the account's signTypedData: hash the typed data, then signMessage
passkeySignTypedData(ceremony) ==
    LET r == passkeySignMessage(ceremony) IN
    [r EXCEPT !.trace = <<"validateTypedData", "hashTypedData">> \o @]

\* the validator's signUserOperation: hash the operation, then signMessage
passkeySignUserOperation(userOperation, ceremony) ==
    LET r == passkeySignMessage(ceremony) IN
    [r EXCEPT !.trace = <<"getUserOperationHash">> \o @]

\* the account's signTransaction
passkeySignTransaction(transaction) ==
    Fail(ErrSignTransactionNotSupported, <<>>)

\* the validator's getDummySignature
passkeyGetDummySignature ==
    Ok(encodeWebAuthnSignature(DummyAuthenticatorData, DummyClientDataJSON,
                               maxUint256, DummyR, DummyS),
       <<"encodeAbiParameters">>)

\* createPasskeyValidator reporting registration after importing the key
createPasskeyValidator_ImportFirst(registration) ==
    LET t == <<"register/options", "startRegistration", "keccak256",
               "register/verify">> IN
    IF ~registration.publicKey THEN Fail(ErrNoPublicKey, t)
    ELSE IF ~registration.verified
    THEN Fail(ErrRegistrationNotVerified, t \o <<"importKey">>)
    ELSE Ok(WEBAUTHN_VALIDATOR_ADDRESS,
            t \o <<"importKey", "exportKey", "getChainId", "toAccount">>)

\* createPasskeyValidator: the registration ceremony, its verification, the
\* import of the public key, the account
createPasskeyValidator(registration) ==
    LET t == <<"register/options", "startRegistration", "keccak256",
               "register/verify">> IN
    IF ~registration.verified THEN Fail(ErrRegistrationNotVerified, t)
    ELSE IF ~registration.publicKey THEN Fail(ErrNoPublicKey, t)
    ELSE Ok(WEBAUTHN_VALIDATOR_ADDRESS,
            t \o <<"importKey", "exportKey", "getChainId", "toAccount">>)

\* getPasskeyValidator: the login ceremony, its verification, the import of
\* the public key, the account
getPasskeyValidator(login) ==
    LET t == <<"login/options", "startAuthentication", "keccak256",
               "login/verify">> IN
    IF ~login.verified THEN Fail(ErrLoginNotVerified, t)
    ELSE IF ~login.publicKey THEN Fail(ErrNoPublicKey, t)
    ELSE Ok(WEBAUTHN_VALIDATOR_ADDRESS,
            t \o <<"importKey", "exportKey", "getChainId", "toAccount">>)

\* the ceremony behind a passkey validator that a plugin manager holds: the
\* authenticator signs over the given digest in a browser that writes the
\* crossOrigin member
RelayCeremony(digest) ==
    [success |-> TRUE, authenticatorData |-> Rep(37, 73),
     clientDataJSON |-> serializeClientData(Rep(43, 98), OriginExample, TRUE),
     signature |-> [r |-> 1 + digest, s |-> 1]]

----------------------------------------------------------------------------
(* Inputs *)

SelectorX == <<170, 187, 204, 221>>
Executor1 == Rep(20, 225)
Account1 == Rep(20, 161)
ChainId == 5

\* KernelValidator objects: address, validatorType, identifier, nonce key
SudoValidator ==
    [name |-> "sudo", address |-> Rep(20, 81), validatorType |-> "SECONDARY",
     identifier |-> Rep(20, 81), nonceKey |-> 0, sigByte |-> 83,
     enableData |-> Rep(20, 11)]
RegularSecondary ==
    [name |-> "regular", address |-> Rep(20, 82), validatorType |-> "SECONDARY",
     identifier |-> Rep(20, 82), nonceKey |-> 258, sigByte |-> 84,
     enableData |-> Rep(20, 12)]
RegularPermission ==
    [name |-> "regular", address |-> Rep(20, 112), validatorType |-> "PERMISSION",
     identifier |-> <<1, 2, 3, 4>>, nonceKey |-> 7, sigByte |-> 85,
     enableData |-> <<13, 13>>]

\* a passkey validator as the manager's sudo validator
SudoPasskey ==
    [name |-> "sudo", address |-> WEBAUTHN_VALIDATOR_ADDRESS,
     validatorType |-> "SECONDARY", identifier |-> WEBAUTHN_VALIDATOR_ADDRESS,
     nonceKey |-> 0, sigByte |-> 80, enableData |-> Rep(64, 14)]
isPasskey(validator) == validator.address = WEBAUTHN_VALIDATOR_ADDRESS

\* a passkey validator as the manager's regular validator
RegularPasskey ==
    [name |-> "regular", address |-> WEBAUTHN_VALIDATOR_ADDRESS,
     validatorType |-> "SECONDARY", identifier |-> WEBAUTHN_VALIDATOR_ADDRESS,
     nonceKey |-> 0, sigByte |-> 80, enableData |-> Rep(64, 14)]

\* a regular validator whose nonce key does not fit in two bytes, and one
\* whose identifier is longer than an address
RegularWideKey ==
    [name |-> "regular", address |-> Rep(20, 113), validatorType |-> "SECONDARY",
     identifier |-> Rep(20, 113), nonceKey |-> 65536, sigByte |-> 86,
     enableData |-> Rep(20, 15)]
RegularLongIdentifier ==
    [name |-> "regular", address |-> Rep(20, 114), validatorType |-> "PERMISSION",
     identifier |-> Rep(21, 114), nonceKey |-> 1, sigByte |-> 87,
     enableData |-> Rep(20, 16)]

SudoChoices == {None, Some(SudoValidator), Some(SudoPasskey)}
RegularChoices == {None, Some(RegularSecondary), Some(RegularPermission)}
EntryPointVersions == {"v0.6", "v0.7"}
EnableSignatureChoices == {None, Some(<<>>), Some(<<238, 1>>)}
ValidityChoices ==
    {[validAfter |-> 0, validUntil |-> 0], [validAfter |-> 1, validUntil |-> 2]}
ExecutorDataChoices == {None, Some([selector |-> SelectorX, executor |-> Executor1])}

KernelVersionParam == Some("0.2.2")

\* a validatorInitData given at construction, of no configured validator
ValidatorInitDataChoices ==
    {None, Some([validatorAddress |-> Rep(20, 99), enableData |-> <<9, 9, 9>>])}

Accounts == {Account1}
CallDatas == {Selector06 \o <<1>>, SelectorX \o <<2, 3>>}
UserOperations == [sender : Accounts, callData : CallDatas]
Selectors == {Selector06, SelectorX}
KernelVersions == {None, Some("0.2.3")}

\* the on-chain state read through the client and the validators
ChainStates ==
    [enabled : SUBSET (Accounts \X Selectors),
     initialized : SUBSET Accounts,
     validatorNonce : 0..MaxValidatorNonce,
     kernelVersion : KernelVersions,
     rpcOk : BOOLEAN]

----------------------------------------------------------------------------
(* The closure of toKernelPluginManager *)

sudo == params.sudo
regular == params.regular
validAfter == params.validAfter
validUntil == params.validUntil
kernelVersion == params.kernelVersion
entryPointVersion == params.entryPointVersion
validatorInitData == params.validatorInitData

\* a ?? b
Nullish(a, b) == IF IsSome(a) THEN Get(a) ELSE b

\* the active validator taken as sudo || regular
activeValidator_SudoFirst == IF IsSome(sudo) THEN sudo ELSE regular

\* const activeValidator = regular || sudo
activeValidator == IF IsSome(regular) THEN regular ELSE sudo

\* results of the closure's async functions: a value or a thrown error, the
\* value of pluginEnableSignature afterwards, the collaborators invoked (in
\* order) and the typed data handed to sudo.signTypedData, if any
Return(v, c, t, td) ==
    [ok |-> TRUE, err |-> "", val |-> v, cache |-> c, trace |-> t, typed |-> td]
Throw(e, c, t, td) ==
    [ok |-> FALSE, err |-> e, val |-> <<>>, cache |-> c, trace |-> t, typed |-> td]

\* regular.isEnabled taken as an on-chain read for every validator
isEnabled_OnChain(accountAddress, selector) ==
    <<accountAddress, selector>> \in chain.enabled

\* regular.isEnabled(accountAddress, selector): an on-chain read; the
\* passkey validator's isEnabled returns false without reading
isEnabled(accountAddress, selector) ==
    IF IsSome(regular) /\ isPasskey(Get(regular))
    THEN FALSE
    ELSE <<accountAddress, selector>> \in chain.enabled

\* isPluginInitialized(client, accountAddress, regular.address)
isPluginInitialized(accountAddress) ==
    accountAddress \in chain.initialized

\* isPluginEnabled querying the manager's action selector under v0.6 too
isPluginEnabled_ActionSelector(accountAddress, selector) ==
    IF ~IsSome(regular)
    THEN [ok |-> FALSE, err |-> ErrRegularNotSet, val |-> FALSE, trace |-> <<>>]
    ELSE IF ~chain.rpcOk
    THEN [ok |-> FALSE, err |-> ErrRead, val |-> FALSE, trace |-> <<"isEnabled">>]
    ELSE [ok |-> TRUE, err |-> "",
          val |-> isEnabled(accountAddress, executorData.selector),
          trace |-> <<"isEnabled">>]

\* isPluginEnabled without the plugin-initialized read under v0.7
isPluginEnabled_NoInitialized(accountAddress, selector) ==
    IF ~IsSome(regular)
    THEN [ok |-> FALSE, err |-> ErrRegularNotSet, val |-> FALSE, trace |-> <<>>]
    ELSE IF ~chain.rpcOk
    THEN [ok |-> FALSE, err |-> ErrRead, val |-> FALSE, trace |-> <<"isEnabled">>]
    ELSE IF entryPointVersion = "v0.6"
    THEN [ok |-> TRUE, err |-> "", val |-> isEnabled(accountAddress, selector),
          trace |-> <<"isEnabled">>]
    ELSE [ok |-> TRUE, err |-> "",
          val |-> isEnabled(accountAddress, executorData.selector),
          trace |-> <<"isEnabled">>]

isPluginEnabled(accountAddress, selector) ==
    IF ~IsSome(regular)
    THEN [ok |-> FALSE, err |-> ErrRegularNotSet, val |-> FALSE, trace |-> <<>>]
    ELSE IF ~chain.rpcOk
    THEN [ok |-> FALSE, err |-> ErrRead, val |-> FALSE, trace |-> <<"isEnabled">>]
    ELSE IF entryPointVersion = "v0.6"
    THEN [ok |-> TRUE, err |-> "", val |-> isEnabled(accountAddress, selector),
          trace |-> <<"isEnabled">>]
    ELSE IF isEnabled(accountAddress, executorData.selector)
    THEN [ok |-> TRUE, err |-> "", val |-> TRUE, trace |-> <<"isEnabled">>]
    ELSE [ok |-> TRUE, err |-> "", val |-> isPluginInitialized(accountAddress),
          trace |-> <<"isEnabled", "isPluginInitialized">>]

\* getPluginsEnableTypedData of ep0_6, as called at lines 152-160
getPluginsEnableTypedDataV1(accountAddress, chainId, version, action, validator, until, after) ==
    [primaryType |-> "ValidatorApproved", accountAddress |-> accountAddress,
     chainId |-> chainId, kernelVersion |-> version, action |-> action,
     validator |-> validator.address,
     validity |-> Some([validAfter |-> after, validUntil |-> until]),
     validatorNonce |-> None]

\* getPluginsEnableTypedData of ep0_7, as called at lines 166-173
getPluginsEnableTypedDataV2(accountAddress, chainId, version, action, validator, validatorNonce) ==
    [primaryType |-> "Enable", accountAddress |-> accountAddress,
     chainId |-> chainId, kernelVersion |-> version, action |-> action,
     validator |-> VALIDATOR_TYPE[validator.validatorType] \o validator.identifier,
     validity |-> None,
     validatorNonce |-> Some(validatorNonce)]

\* a digest of the typed data, standing for its EIP-712 hash
hashTypedData(td) ==
    (  (IF IsSome(td.validity)
        THEN 1 + Get(td.validity).validAfter + 4 * Get(td.validity).validUntil
        ELSE 0)
     + (IF IsSome(td.validatorNonce) THEN 16 + 16 * Get(td.validatorNonce) ELSE 0)
     + (IF IsSome(td.kernelVersion) THEN 64 ELSE 0)
     + td.action.selector[1] + td.validator[1]) % 256

\* validator.signTypedData(typedData)
signTypedData(validator, td) ==
    IF isPasskey(validator)
    THEN passkeySignTypedData(RelayCeremony(hashTypedData(td))).val
    ELSE <<validator.sigByte, hashTypedData(td)>>

\* signEnableTypedData passing validAfter as validUntil and the reverse
signEnableTypedData_SwappedValidity(accountAddress) ==
    LET version == chain.kernelVersion IN
    IF ~chain.rpcOk
    THEN Throw(ErrRead, pluginEnableSignature, <<"accountMetadata">>, None)
    ELSE IF entryPointVersion = "v0.6"
    THEN LET typeData == getPluginsEnableTypedDataV1(accountAddress, ChainId,
                             IF IsSome(version) THEN version ELSE kernelVersion,
                             executorData, Get(regular), validAfter, validUntil)
             ownerSig == signTypedData(Get(sudo), typeData)
         IN Return(ownerSig, Some(ownerSig),
                   <<"accountMetadata", "sudo.signTypedData">>, Some(typeData))
    ELSE LET validatorNonce == chain.validatorNonce
             typedData == getPluginsEnableTypedDataV2(accountAddress, ChainId,
                             version, executorData, Get(regular), validatorNonce)
             ownerSig == signTypedData(Get(sudo), typedData)
         IN Return(ownerSig, pluginEnableSignature,
                   <<"accountMetadata", "getKernelV3Nonce", "sudo.signTypedData">>,
                   Some(typedData))

\* lines 145-176 of getPluginEnableSignature: read the account's metadata,
\* build the typed data, have sudo sign it; only the v0.6 branch stores the
\* signature in pluginEnableSignature
signEnableTypedData(accountAddress) ==
    LET version == chain.kernelVersion IN
    IF ~chain.rpcOk
    THEN Throw(ErrRead, pluginEnableSignature, <<"accountMetadata">>, None)
    ELSE IF entryPointVersion = "v0.6"
    THEN LET typeData == getPluginsEnableTypedDataV1(accountAddress, ChainId,
                             IF IsSome(version) THEN version ELSE kernelVersion,
                             executorData, Get(regular), validUntil, validAfter)
             ownerSig == signTypedData(Get(sudo), typeData)
         IN Return(ownerSig, Some(ownerSig),
                   <<"accountMetadata", "sudo.signTypedData">>, Some(typeData))
    ELSE LET validatorNonce == chain.validatorNonce
             typedData == getPluginsEnableTypedDataV2(accountAddress, ChainId,
                             version, executorData, Get(regular), validatorNonce)
             ownerSig == signTypedData(Get(sudo), typedData)
         IN Return(ownerSig, pluginEnableSignature,
                   <<"accountMetadata", "getKernelV3Nonce", "sudo.signTypedData">>,
                   Some(typedData))

\* getPluginEnableSignature checking for the sudo validator before looking
\* at the pre-supplied or cached signature
getPluginEnableSignature_SudoFirst(accountAddress) ==
    IF ~IsSome(sudo)
    THEN Throw(ErrSudoNotSet, pluginEnableSignature, <<>>, None)
    ELSE IF Truthy(pluginEnableSignature)
    THEN Return(Get(pluginEnableSignature), pluginEnableSignature, <<>>, None)
    ELSE IF ~IsSome(regular)
    THEN Throw(ErrRegularNotSet, pluginEnableSignature, <<>>, None)
    ELSE signEnableTypedData(accountAddress)

\* getPluginEnableSignature with the two error messages exchanged
getPluginEnableSignature_SwappedErrors(accountAddress) ==
    IF Truthy(pluginEnableSignature)
    THEN Return(Get(pluginEnableSignature), pluginEnableSignature, <<>>, None)
    ELSE IF ~IsSome(sudo)
    THEN Throw(ErrRegularNotSet, pluginEnableSignature, <<>>, None)
    ELSE IF ~IsSome(regular)
    THEN Throw(ErrSudoNotSet, pluginEnableSignature, <<>>, None)
    ELSE signEnableTypedData(accountAddress)

getPluginEnableSignature(accountAddress) ==
    IF Truthy(pluginEnableSignature)
    THEN Return(Get(pluginEnableSignature), pluginEnableSignature, <<>>, None)
    ELSE IF ~IsSome(sudo)
    THEN Throw(ErrSudoNotSet, pluginEnableSignature, <<>>, None)
    ELSE IF ~IsSome(regular)
    THEN Throw(ErrRegularNotSet, pluginEnableSignature, <<>>, None)
    ELSE signEnableTypedData(accountAddress)

\* getEncodedPluginsData of ep0_6: the ENABLE-mode prefix and the encoded
\* enable parameters, to which the caller appends the userOp signature
getEncodedPluginsDataV1(accountAddress, enableSignature, action, validator, until, after) ==
    concatHex(<<ValidatorMode_enable,
                accountAddress,
                Get(pad(toHex(until), 6)),
                Get(pad(toHex(after), 6)),
                validator.address,
                action.executor,
                LP(enableSignature)>>)

\* getEncodedPluginsData of ep0_7: the structured encoding of the enable
\* signature, the action, the validator and the userOp signature
getEncodedPluginsDataV2(accountAddress, action, enableSignature, userOpSignature, validator) ==
    concatHex(<<LP(enableSignature),
                action.selector,
                action.executor,
                validator.address,
                LP(userOpSignature)>>)

getSignatureData(accountAddress, selector, userOpSignature) ==
    IF entryPointVersion = "v0.6"
    THEN IF IsSome(regular)
         THEN LET en == isPluginEnabled(accountAddress, selector) IN
              IF ~en.ok
              THEN Throw(en.err, pluginEnableSignature, en.trace, None)
              ELSE IF en.val
              THEN Return(ValidatorMode_plugin, pluginEnableSignature, en.trace, None)
              ELSE LET enable(es) ==
                         IF ~es.ok
                         THEN Throw(es.err, es.cache, en.trace \o es.trace, es.typed)
                         ELSE IF IsFalsyHex(es.val)
                         THEN Throw(ErrEnableSignature, es.cache,
                                    en.trace \o es.trace, es.typed)
                         ELSE Return(getEncodedPluginsDataV1(accountAddress, es.val,
                                         executorData, Get(regular), validUntil,
                                         validAfter),
                                     es.cache, en.trace \o es.trace, es.typed)
                   IN enable(getPluginEnableSignature(accountAddress))
         ELSE IF IsSome(sudo)
         THEN Return(ValidatorMode_sudo, pluginEnableSignature, <<>>, None)
         ELSE Throw(ErrNoValidator, pluginEnableSignature, <<>>, None)
    ELSE IF IsSome(regular)
    THEN LET en == isPluginEnabled(accountAddress, executorData.selector) IN
         IF ~en.ok
         THEN Throw(en.err, pluginEnableSignature, en.trace, None)
         ELSE IF en.val
         THEN Return(userOpSignature, pluginEnableSignature, en.trace, None)
         ELSE LET enable(es) ==
                    IF ~es.ok
                    THEN Throw(es.err, es.cache, en.trace \o es.trace, es.typed)
                    ELSE Return(getEncodedPluginsDataV2(accountAddress, executorData,
                                    es.val, userOpSignature, Get(regular)),
                                es.cache, en.trace \o es.trace, es.typed)
              IN enable(getPluginEnableSignature(accountAddress))
    ELSE IF IsSome(sudo)
    THEN Return(userOpSignature, pluginEnableSignature, <<>>, None)
    ELSE Throw(ErrNoValidator, pluginEnableSignature, <<>>, None)

\* validator.signUserOperation(userOperation): a signature over the operation
validatorSignUserOperation(validator, userOperation) ==
    IF isPasskey(validator)
    THEN passkeySignUserOperation(userOperation,
             RelayCeremony(digestByte(getUserOperationHash(userOperation,
                               ENTRYPOINT_ADDRESS_V06, ChainId)))).val
    ELSE <<validator.sigByte, userOperation.sender[1],
           userOperation.callData[Len(userOperation.callData)]>>

\* validator.getDummySignature(userOperation)
validatorGetDummySignature(validator, userOperation) ==
    IF isPasskey(validator)
    THEN passkeyGetDummySignature.val
    ELSE <<validator.sigByte, 255, 255>>

\* signUserOperation handing back the validator's bare signature when the
\* mode prefix or enable data cannot be obtained
signUserOperation_PartialOnError(userOperation, signerOk) ==
    LET v == Get(activeValidator)
        t0 == <<v.name \o ".signUserOperation">>
    IN
    IF ~signerOk
    THEN Throw(ErrValidator, pluginEnableSignature, t0, None)
    ELSE
      LET userOpSig == validatorSignUserOperation(v, userOperation)
          sd == getSignatureData(userOperation.sender,
                                 slice10(userOperation.callData),
                                 IF entryPointVersion = "v0.6" THEN <<>> ELSE userOpSig)
      IN
      IF ~sd.ok
      THEN Return(userOpSig, sd.cache, t0 \o sd.trace, sd.typed)
      ELSE IF entryPointVersion = "v0.6"
      THEN Return(concatHex(<<sd.val, userOpSig>>), sd.cache, t0 \o sd.trace, sd.typed)
      ELSE Return(sd.val, sd.cache, t0 \o sd.trace, sd.typed)

\* the manager's signUserOperation; signerOk is whether the active
\* validator's signing ceremony succeeds
signUserOperation(userOperation, signerOk) ==
    LET v == Get(activeValidator)
        t0 == <<v.name \o ".signUserOperation">>
    IN
    IF ~signerOk
    THEN Throw(ErrValidator, pluginEnableSignature, t0, None)
    ELSE
      LET userOpSig == validatorSignUserOperation(v, userOperation)
          sd == getSignatureData(userOperation.sender,
                                 slice10(userOperation.callData),
                                 IF entryPointVersion = "v0.6" THEN <<>> ELSE userOpSig)
      IN
      IF ~sd.ok
      THEN Throw(sd.err, sd.cache, t0 \o sd.trace, sd.typed)
      ELSE IF entryPointVersion = "v0.6"
      THEN Return(concatHex(<<sd.val, userOpSig>>), sd.cache, t0 \o sd.trace, sd.typed)
      ELSE Return(sd.val, sd.cache, t0 \o sd.trace, sd.typed)

\* the manager's getDummySignature
getDummySignature(userOperation) ==
    LET v == Get(activeValidator)
        t0 == <<v.name \o ".getDummySignature">>
        userOpSig == validatorGetDummySignature(v, userOperation)
        sd == getSignatureData(userOperation.sender,
                               slice10(userOperation.callData),
                               IF entryPointVersion = "v0.6" THEN <<>> ELSE userOpSig)
    IN
    IF ~sd.ok
    THEN Throw(sd.err, sd.cache, t0 \o sd.trace, sd.typed)
    ELSE IF entryPointVersion = "v0.6"
    THEN Return(concatHex(<<sd.val, userOpSig>>), sd.cache, t0 \o sd.trace, sd.typed)
    ELSE Return(sd.val, sd.cache, t0 \o sd.trace, sd.typed)

\* getValidatorInitData taking the address of the active validator and the
\* enable data of the sudo validator
getValidatorInitData_Mixed ==
    IF IsSome(validatorInitData)
    THEN Return(<<Get(validatorInitData).validatorAddress,
                  Get(validatorInitData).enableData>>,
                pluginEnableSignature, <<>>, None)
    ELSE Return(<<Get(activeValidator).address,
                  Nullish(IF IsSome(sudo) THEN Some(Get(sudo).enableData) ELSE None,
                          Get(activeValidator).enableData)>>,
                pluginEnableSignature, <<"getEnableData">>, None)

\* the manager's getValidatorInitData: the pair (validatorAddress,
\* enableData); sudo?.x ?? activeValidator.x for both members
getValidatorInitData ==
    IF IsSome(validatorInitData)
    THEN Return(<<Get(validatorInitData).validatorAddress,
                  Get(validatorInitData).enableData>>,
                pluginEnableSignature, <<>>, None)
    ELSE Return(<<Nullish(IF IsSome(sudo) THEN Some(Get(sudo).address) ELSE None,
                          Get(activeValidator).address),
                  Nullish(IF IsSome(sudo) THEN Some(Get(sudo).enableData) ELSE None,
                          Get(activeValidator).enableData)>>,
                pluginEnableSignature, <<"getEnableData">>, None)

\* the nonce key cut to its size: the low two bytes of the sub-key, the
\* low 24 bytes of the whole
encodeNonceKey_Truncating(validatorMode, validatorType, identifier, nonceKey) ==
    LET subKey == <<(nonceKey \div 256) % 256, nonceKey % 256>>
        whole == concatHex(<<validatorMode, validatorType, identifier, subKey>>)
    IN Some(BigInt(SubSeq(whole, Len(whole) - 23, Len(whole))))

\* the nonce key of lines 241-253 from its four fields; None when a pad
\* throws SizeExceedsPaddingSizeError
encodeNonceKey(validatorMode, validatorType, identifier, nonceKey) ==
    LET subKey == pad(toHex(nonceKey), 2) IN
    IF ~IsSome(subKey) THEN None
    ELSE LET padded == pad(concatHex(<<validatorMode, validatorType,
                                       identifier, Get(subKey)>>), 24)
         IN IF ~IsSome(padded) THEN None ELSE Some(BigInt(Get(padded)))

\* the validator mode chosen at lines 233-237
nonceKeyMode(accountAddress) ==
    IF ~IsSome(regular) \/ isPluginEnabled(accountAddress, executorData.selector).val
    THEN VALIDATOR_MODE_DEFAULT
    ELSE VALIDATOR_MODE_ENABLE

\* the validator type taken from the active validator's own validatorType
nonceKeyType_Active ==
    VALIDATOR_TYPE[Get(activeValidator).validatorType]

\* the validator type chosen at lines 238-240
nonceKeyType ==
    IF IsSome(regular)
    THEN VALIDATOR_TYPE[Get(regular).validatorType]
    ELSE VALIDATOR_TYPE.SUDO

\* the manager's getNonceKey
getNonceKey(accountAddress) ==
    LET v == Get(activeValidator) IN
    IF entryPointVersion = "v0.6"
    THEN Return(BigInt(toHex(v.nonceKey)), pluginEnableSignature,
                <<v.name \o ".getNonceKey">>, None)
    ELSE
      LET en == isPluginEnabled(accountAddress, executorData.selector)
          t0 == IF IsSome(regular) THEN en.trace ELSE <<>>
          key == encodeNonceKey(nonceKeyMode(accountAddress), nonceKeyType,
                                v.identifier, v.nonceKey)
          t1 == t0 \o <<v.name \o ".getNonceKey">>
      IN IF IsSome(regular) /\ ~en.ok
         THEN Throw(en.err, pluginEnableSignature, t0, None)
         ELSE IF IsSome(key)
         THEN Return(Get(key), pluginEnableSignature, t1, None)
         ELSE Throw(ErrSizeExceedsPadding, pluginEnableSignature, t1, None)

----------------------------------------------------------------------------
(* The ECDSA kernel smart account *)

ECDSA_VALIDATOR ==
    <<217, 171, 80, 150, 168, 50, 185, 206, 121, 145, 67, 41, 218, 238, 35,
      111, 142, 234, 3, 144>>
ACCOUNT_V2_2_LOGIC ==
    <<13, 166, 169, 86, 185, 72, 142, 212, 221, 118, 30, 89, 245, 47, 220,
      108, 128, 104, 230, 181>>
FACTORY_ADDRESS ==
    <<93, 228, 131, 154, 118, 207, 85, 208, 201, 14, 32, 97, 239, 67, 134,
      217, 98, 225, 90, 227>>

\* the value returned by the account's getDummySignature
KernelDummySignature ==
    <<0, 0, 0, 0, 255, 255, 255, 255, 255, 255, 255, 255, 255, 255, 255,
      255, 255, 255, 255, 240, 0, 0, 0, 0, 0, 0, 0, 0, 0, 0, 0, 0, 0, 0, 0,
      0, 122, 170, 170, 170, 170, 170, 170, 170, 170, 170, 170, 170, 170,
      170, 170, 170, 170, 170, 170, 170, 170, 170, 170, 170, 170, 170, 170,
      170, 170, 170, 170, 170, 28>>

ErrInvalidOwner == "Invalid owner for the already deployed account"
ErrAddressNotFound == "Account address not found"

\* signers, an already deployed account, and what the validator's
\* ecdsaValidatorStorage records as the owner of that account
Owner1 == Rep(20, 17)
Owner2 == Rep(20, 34)
Signers == [type : {"local", "json-rpc"}, address : {Owner1, Owner2}]
DeployedAccount == Rep(20, 208)
DeployedChoices == {None, Some(DeployedAccount)}
Storages == [{DeployedAccount} -> {Owner1, Owner2, zeroAddress}]
\* what getBytecode finds at the account's address: nothing, or the code of
\* the deployed account
Bytecodes == {None, Some(<<54, 61, 61, 55>>)}
Transactions ==
    {[to |-> zeroAddress, value |-> 0, data |-> <<>>],
     [to |-> Owner2, value |-> 1, data |-> <<170>>]}

\* getAccountInitCode: the factory address, then the createAccount call with
\* the account logic, the initialize(validator, owner) data and the index
getAccountInitCode(owner, index, factoryAddress, accountLogicAddress, ecdsaValidatorAddress) ==
    concatHex(<<factoryAddress, accountLogicAddress, ecdsaValidatorAddress,
                owner, abiWord(toHex(index))>>)

\* generateInitCode of the account's closure, index defaulting to 0n
generateInitCode(signer) ==
    getAccountInitCode(signer.address, 0, FACTORY_ADDRESS, ACCOUNT_V2_2_LOGIC,
                       ECDSA_VALIDATOR)

\* getSenderAddress(client, {initCode, entryPoint}): the counterfactual
\* address the entry point derives from the init code
getSenderAddress(initCode) ==
    [i \in 1..20 |-> (initCode[60 + i] + 1) % 256]

\* viem isAddressEqual: equality of the two addresses' bytes
isAddressEqual(a, b) == a = b

\* getAccountAddress trusting the supplied deployed address
getAccountAddress_NoOwnerCheck(owner, initCode, deployedAccountAddress, storage) ==
    IF IsSome(deployedAccountAddress)
    THEN Ok(Get(deployedAccountAddress), <<"readContract">>)
    ELSE Ok(getSenderAddress(initCode), <<"initCodeProvider", "getSenderAddress">>)

\* getAccountAddress: for an already deployed account, read its recorded
\* owner and compare it with the signer's address; otherwise derive the
\* address from the init code
getAccountAddress(owner, initCode, deployedAccountAddress, storage) ==
    IF IsSome(deployedAccountAddress)
    THEN LET deployedAccountOwner == storage[Get(deployedAccountAddress)] IN
         IF ~isAddressEqual(deployedAccountOwner, owner)
         THEN Fail(ErrInvalidOwner, <<"readContract">>)
         ELSE Ok(Get(deployedAccountAddress), <<"readContract">>)
    ELSE Ok(getSenderAddress(initCode), <<"initCodeProvider", "getSenderAddress">>)

\* signerToEcdsaKernelSmartAccount up to the account object: the address
\* from getAccountAddress, fetched together with the chain id
signerToEcdsaKernelSmartAccount(signer, deployedAccountAddress, storage) ==
    LET a == getAccountAddress(signer.address, generateInitCode(signer),
                               deployedAccountAddress, storage)
    IN IF ~a.ok THEN Fail(a.err, a.trace \o <<"getChainId">>)
       ELSE IF a.val = <<>> THEN Fail(ErrAddressNotFound, a.trace \o <<"getChainId">>)
       ELSE Ok(a.val, a.trace \o <<"getChainId", "toAccount">>)

\* signMessage(client, {account: viemSigner, message: {raw: hash}}): a
\* 65-byte ECDSA signature
signerSignMessage(signer, hash) ==
    <<signer.address[1]>> \o Rep(63, digestByte(hash)) \o <<28>>

\* the account's signUserOperation; signerOk is whether the signer signs
ecdsaSignUserOperation(signer, userOperation, signerOk) ==
    LET hash == getUserOperationHash(userOperation, ENTRYPOINT_ADDRESS_V06, ChainId) IN
    IF ~signerOk
    THEN Fail(ErrValidator, <<"getUserOperationHash", "signMessage">>)
    ELSE Ok(concatHex(<<<<0, 0, 0, 0>>, signerSignMessage(signer, hash)>>),
            <<"getUserOperationHash", "signMessage">>)

\* the account's getDummySignature
ecdsaGetDummySignature == Ok(KernelDummySignature, <<>>)

\* the length of a Hex as the string it is: "0x" and two digits per byte
hexLength(hex) == 2 + 2 * Len(hex)

\* getInitCode returning the init code whatever is found at the address
ecdsaGetInitCode_Always(signer, contractCode) ==
    Ok(generateInitCode(signer), <<"getBytecode", "generateInitCode">>)

\* the account's getInitCode: empty once there is code at the account's
\* address, else the init code
ecdsaGetInitCode(signer, contractCode) ==
    IF (IF IsSome(contractCode) THEN hexLength(Get(contractCode)) ELSE 0) > 2
    THEN Ok(<<>>, <<"getBytecode">>)
    ELSE Ok(generateInitCode(signer), <<"getBytecode", "generateInitCode">>)

\* the account's signTransaction handing the transaction to the signer
ecdsaSignTransaction_Delegates(transaction) ==
    Ok(<<2>> \o transaction.data, <<"signer.signTransaction">>)

\* the account's signTransaction
ecdsaSignTransaction(transaction) ==
    Fail(ErrSignTransactionNotSupported, <<>>)

\* signTransaction of the local signer as wrapped in viemSigner
viemSignerSignTransaction(transaction) ==
    Fail(ErrSignTransactionNotSupported, <<>>)

----------------------------------------------------------------------------
(* The multi-chain dummy signature and its Merkle tree *)

\* bound on the number of user operations aggregated
MaxNumOfUserOps == 5

\* the placeholder hash 0xaaaa...aa
dummyUserOpHash == Hash32(<<Rep(32, 170)>>)

dummyEcdsaSig ==
    <<255, 255, 255, 255, 255, 255, 255, 255, 255, 255, 255, 255, 255, 255,
      255, 240, 0, 0, 0, 0, 0, 0, 0, 0, 0, 0, 0, 0, 0, 0, 0, 0, 122, 170,
      170, 170, 170, 170, 170, 170, 170, 170, 170, 170, 170, 170, 170, 170,
      170, 170, 170, 170, 170, 170, 170, 170, 170, 170, 170, 170, 170, 170,
      170, 170, 28>>

\* keccak256 over the two nodes concatenated in sorted order (sortPairs):
\* the result depends on the two nodes and not on which came first
hashPair(a, b) == [leaf |-> <<>>, pair |-> {a, b}]

\* one round of the tree's construction: neighbours are hashed in pairs, a
\* last node without neighbour moves up unchanged
nextLayer(nodes) ==
    [i \in 1..((Len(nodes) + 1) \div 2) |->
        IF 2 * i <= Len(nodes)
        THEN hashPair(nodes[2 * i - 1], nodes[2 * i])
        ELSE nodes[2 * i - 1]]

\* new MerkleTree(leaves, keccak256, {sortPairs: true}): the layers, from
\* the leaves up to the root
RECURSIVE MerkleTree(_)
MerkleTree(nodes) ==
    IF Len(nodes) <= 1 THEN <<nodes>>
    ELSE <<nodes>> \o MerkleTree(nextLayer(nodes))

getHexRoot(layers) == layers[Len(layers)][1]

\* the siblings on the way up from position index of layer k
RECURSIVE proofFrom(_, _, _)
proofFrom(layers, k, index) ==
    IF k > Len(layers) THEN <<>>
    ELSE LET layer == layers[k]
             pairIndex == IF index % 2 = 1 THEN index + 1 ELSE index - 1
         IN (IF pairIndex <= Len(layer) THEN <<layer[pairIndex]>> ELSE <<>>)
                \o proofFrom(layers, k + 1, (index + 1) \div 2)

\* getHexProof(leaf): the proof of the first leaf equal to the given one,
\* empty when there is none
getHexProof(layers, leaf) ==
    LET at == {i \in 1..Len(layers[1]) : layers[1][i] = leaf} IN
    IF at = {} THEN <<>>
    ELSE proofFrom(layers, 1, CHOOSE i \in at : \A j \in at : i <= j)

\* the pieces of a concatenation: raw bytes, or the 32 bytes of a hash
NoHash == [leaf |-> <<>>, pair |-> {}]
RawSeg(bytes) == [len |-> Len(bytes), bytes |-> bytes, hash |-> NoHash]
HashSeg(h) == [len |-> 32, bytes |-> <<>>, hash |-> h]
UintSeg(n) == RawSeg(abiWord(toHex(n)))

\* encodeAbiParameters for (bytes32, bytes32[]): the hash, the offset of the
\* array, its length and its elements
encodeMerkleProof(hash, proof) ==
    <<HashSeg(hash), UintSeg(64), UintSeg(Len(proof))>>
        \o [i \in 1..Len(proof) |-> HashSeg(proof[i])]

\* the leaves with the real hash in the last place
leaves_RealLast(userOpHash, numOfUserOps) ==
    Rep(numOfUserOps - 1, dummyUserOpHash) \o <<userOpHash>>

\* the leaves: the real hash, then numOfUserOps - 1 placeholders
leaves(userOpHash, numOfUserOps) ==
    <<userOpHash>> \o Rep(numOfUserOps - 1, dummyUserOpHash)

\* the dummy signature carrying the proof of the placeholder leaf
getMultiUserOpDummySignature_ProofOfFiller(userOperation, numOfUserOps, entryPoint, chainId) ==
    LET userOpHash == getUserOperationHash(userOperation, entryPoint, chainId)
        merkleTree == MerkleTree(leaves(userOpHash, numOfUserOps))
        merkleRoot == getHexRoot(merkleTree)
        merkleProof == getHexProof(merkleTree, dummyUserOpHash)
    IN <<RawSeg(dummyEcdsaSig), HashSeg(merkleRoot)>>
           \o encodeMerkleProof(userOpHash, merkleProof)

\* the dummy signature encoding the placeholder hash as the leaf
getMultiUserOpDummySignature_EncodesFiller(userOperation, numOfUserOps, entryPoint, chainId) ==
    LET userOpHash == getUserOperationHash(userOperation, entryPoint, chainId)
        merkleTree == MerkleTree(leaves(userOpHash, numOfUserOps))
        merkleRoot == getHexRoot(merkleTree)
        merkleProof == getHexProof(merkleTree, userOpHash)
    IN <<RawSeg(dummyEcdsaSig), HashSeg(merkleRoot)>>
           \o encodeMerkleProof(dummyUserOpHash, merkleProof)

getMultiUserOpDummySignature(userOperation, numOfUserOps, entryPoint, chainId) ==
    LET userOpHash == getUserOperationHash(userOperation, entryPoint, chainId)
        merkleTree == MerkleTree(leaves(userOpHash, numOfUserOps))
        merkleRoot == getHexRoot(merkleTree)
        merkleProof == getHexProof(merkleTree, userOpHash)
    IN <<RawSeg(dummyEcdsaSig), HashSeg(merkleRoot)>>
           \o encodeMerkleProof(userOpHash, merkleProof)

----------------------------------------------------------------------------
(* States in which a part of the program has not been used *)

NoPasskey == [stage |-> "none", ctor |-> "none"]

NoSigner == [type |-> "none", address |-> <<>>]
NoAccount(storage) ==
    [stage |-> "none", storage |-> storage, signer |-> NoSigner,
     deployed |-> None, address |-> <<>>, code |-> None]

NoCeremony ==
    [success |-> TRUE, authenticatorData |-> <<>>, clientDataJSON |-> <<>>,
     signature |-> [r |-> 0, s |-> 0]]
NoVCall ==
    [target |-> "none", op |-> "none", ok |-> TRUE, err |-> "", val |-> <<>>,
     trace |-> <<>>, verified |-> TRUE, ceremony |-> NoCeremony]

NoUserOperation == [sender |-> <<>>, callData |-> <<>>]
NoMerkle ==
    [stage |-> "idle", userOperation |-> NoUserOperation, entryPoint |-> <<>>,
     chainId |-> 0, numOfUserOps |-> 0, leaves |-> <<>>, out |-> <<>>,
     presented |-> <<>>]

\* a getPluginEnableSignature call that has not started, and no call started
NoFlight ==
    [pc |-> "idle", account |-> <<>>, emptyAtStart |-> FALSE, version |-> None,
     typed |-> None, signed |-> FALSE, ok |-> TRUE, err |-> "", val |-> <<>>]
NoFlights == [i \in 1..MaxFlights |-> NoFlight]

\* the parts of the program other than the plugin manager are not in use
OthersIdle ==
    /\ pk = NoPasskey
    /\ ec = NoAccount([a \in {DeployedAccount} |-> zeroAddress])
    /\ vlast = NoVCall
    /\ mk = NoMerkle

----------------------------------------------------------------------------
(* State machine of the plugin manager *)

\* the default of the destructured executorData parameter (lines 49-52)
defaultExecutorData ==
    [selector |-> getActionSelector("v0.6"), executor |-> zeroAddress]

\* executorData after the destructuring default and lines 65-69
normalizedExecutorData ==
    LET given == IF IsSome(params.executorData)
                 THEN Get(params.executorData)
                 ELSE defaultExecutorData
    IN [selector |-> Nullish(Some(given.selector), getActionSelector(entryPointVersion)),
        executor |-> Nullish(Some(given.executor), zeroAddress)]

\* the manager's getExecutorData
getExecutorData == executorData

FreshChain ==
    [enabled |-> {}, initialized |-> {}, validatorNonce |-> 0,
     kernelVersion |-> None, rpcOk |-> TRUE]

NoCall ==
    [op |-> "none", account |-> <<>>, callData |-> <<>>, signerOk |-> TRUE,
     ok |-> TRUE, err |-> "", val |-> <<>>, trace |-> <<>>, typed |-> None,
     cacheBefore |-> None]

Outcome(op, account, callData, signerOk, r) ==
    [op |-> op, account |-> account, callData |-> callData, signerOk |-> signerOk,
     ok |-> r.ok, err |-> r.err, val |-> r.val, trace |-> r.trace,
     typed |-> r.typed, cacheBefore |-> pluginEnableSignature]

Count(trace, ev) == Cardinality({i \in DOMAIN trace : trace[i] = ev})

NoKeys == [DEFAULT |-> None, ENABLE |-> None]

Init ==
    /\ params \in [sudo : SudoChoices,
                   regular : RegularChoices,
                   pluginEnableSignature : EnableSignatureChoices,
                   validatorInitData : {None},
                   executorData : ExecutorDataChoices,
                   validAfter : {v.validAfter : v \in ValidityChoices},
                   validUntil : {v.validUntil : v \in ValidityChoices},
                   kernelVersion : {KernelVersionParam},
                   entryPointVersion : EntryPointVersions]
    /\ [validAfter |-> params.validAfter, validUntil |-> params.validUntil]
           \in ValidityChoices
    /\ (params.sudo = Some(SudoPasskey) => params.entryPointVersion = "v0.6")
    /\ phase = "new"
    /\ executorData = defaultExecutorData
    /\ pluginEnableSignature = params.pluginEnableSignature
    /\ chain = FreshChain
    /\ typedSigns = 0
    /\ keys = NoKeys
    /\ last = NoCall
    /\ flights = NoFlights
    /\ OthersIdle

\* toKernelPluginManager without the check of lines 62-64
Construct_Unchecked ==
    /\ phase = "new"
    /\ phase' = "ready"
    /\ executorData' = normalizedExecutorData
    /\ last' = [NoCall EXCEPT !.op = "toKernelPluginManager"]
    /\ UNCHANGED <<params, pluginEnableSignature, chain, typedSigns, keys>>
    /\ UNCHANGED <<pk, ec, vlast, mk, flights>>

\* toKernelPluginManager(client, params), lines 59-72 and 179
Construct ==
    /\ phase = "new"
    /\ IF ~IsSome(activeValidator)
       THEN /\ phase' = "failed"
            /\ last' = [NoCall EXCEPT !.op = "toKernelPluginManager",
                                      !.ok = FALSE, !.err = ErrNoValidator]
            /\ UNCHANGED executorData
       ELSE /\ phase' = "ready"
            /\ executorData' = normalizedExecutorData
            /\ last' = [NoCall EXCEPT !.op = "toKernelPluginManager"]
    /\ UNCHANGED <<params, pluginEnableSignature, chain, typedSigns, keys>>
    /\ UNCHANGED <<pk, ec, vlast, mk, flights>>

\* the effect of one completed call on the manager
Call(op, account, callData, signerOk, r) ==
    /\ phase = "ready"
    /\ typedSigns + Count(r.trace, "sudo.signTypedData") <= MaxTypedSigns
    /\ pluginEnableSignature' = r.cache
    /\ typedSigns' = typedSigns + Count(r.trace, "sudo.signTypedData")
    /\ last' = Outcome(op, account, callData, signerOk, r)
    /\ UNCHANGED <<params, phase, executorData, chain>>
    /\ UNCHANGED <<pk, ec, vlast, mk, flights>>

GetPluginEnableSignature(accountAddress) ==
    /\ Call("getPluginEnableSignature", accountAddress, <<>>, TRUE,
            getPluginEnableSignature(accountAddress))
    /\ UNCHANGED keys

SignUserOperation(userOperation, signerOk) ==
    /\ Call("signUserOperation", userOperation.sender, userOperation.callData,
            signerOk, signUserOperation(userOperation, signerOk))
    /\ UNCHANGED keys

GetDummySignature(userOperation) ==
    /\ Call("getDummySignature", userOperation.sender, userOperation.callData,
            TRUE, getDummySignature(userOperation))
    /\ UNCHANGED keys

GetNonceKey(accountAddress) ==
    LET r == getNonceKey(accountAddress) IN
    /\ Call("getNonceKey", accountAddress, <<>>, TRUE, r)
    /\ keys' = IF r.ok /\ entryPointVersion = "v0.7"
               THEN IF nonceKeyMode(accountAddress) = VALIDATOR_MODE_ENABLE
                    THEN [keys EXCEPT !.ENABLE = Some(r.val)]
                    ELSE [keys EXCEPT !.DEFAULT = Some(r.val)]
               ELSE keys

\* the chain moves on: a transaction enables or disables the regular
\* validator for a selector, installs the plugin, advances the validator
\* nonce or deploys the account.  The record of the last call is dropped, so
\* that a recorded outcome always belongs to the current chain state.
ChainStep(c) ==
    /\ phase = "ready"
    /\ c # chain
    /\ c.validatorNonce >= chain.validatorNonce
    /\ chain' = c
    /\ last' = NoCall
    /\ UNCHANGED <<params, phase, executorData, pluginEnableSignature,
                   typedSigns, keys>>
    /\ UNCHANGED <<pk, ec, vlast, mk, flights>>

EnablePlugin ==
    \E a \in Accounts, s \in Selectors :
        /\ <<a, s>> \notin chain.enabled
        /\ ChainStep([chain EXCEPT !.enabled = @ \cup {<<a, s>>}])

DisablePlugin ==
    \E a \in Accounts, s \in Selectors :
        /\ <<a, s>> \in chain.enabled
        /\ ChainStep([chain EXCEPT !.enabled = @ \ {<<a, s>>}])

InitializePlugin ==
    \E a \in Accounts :
        /\ a \notin chain.initialized
        /\ ChainStep([chain EXCEPT !.initialized = @ \cup {a}])

UninstallPlugin ==
    \E a \in Accounts :
        /\ a \in chain.initialized
        /\ ChainStep([chain EXCEPT !.initialized = @ \ {a}])

AdvanceValidatorNonce ==
    /\ chain.validatorNonce < MaxValidatorNonce
    /\ ChainStep([chain EXCEPT !.validatorNonce = @ + 1])

DeployAccount ==
    /\ chain.kernelVersion = None
    /\ ChainStep([chain EXCEPT !.kernelVersion = Some("0.2.3")])

\* the node the client reads from stops answering, or answers again
RpcFails ==
    /\ chain.rpcOk
    /\ ChainStep([chain EXCEPT !.rpcOk = FALSE])

RpcRecovers ==
    /\ ~chain.rpcOk
    /\ ChainStep([chain EXCEPT !.rpcOk = TRUE])

Next ==
    \/ Construct
    \/ \E a \in Accounts : GetPluginEnableSignature(a)
    \/ \E op \in UserOperations, signerOk \in BOOLEAN : SignUserOperation(op, signerOk)
    \/ \E op \in UserOperations : GetDummySignature(op)
    \/ \E a \in Accounts \cup {zeroAddress} : GetNonceKey(a)
    \/ EnablePlugin
    \/ DisablePlugin
    \/ InitializePlugin
    \/ UninstallPlugin
    \/ AdvanceValidatorNonce
    \/ DeployAccount
    \/ RpcFails
    \/ RpcRecovers

Spec == Init /\ [][Next]_vars

TypeOK ==
    /\ phase \in {"new", "ready", "failed"}
    /\ typedSigns \in 0..MaxTypedSigns
    /\ chain \in ChainStates

----------------------------------------------------------------------------
(* State machine of the passkey validator and the ECDSA kernel account *)

\* a plugin manager that is not in use
IdleParams ==
    [sudo |-> Some(SudoValidator), regular |-> None,
     pluginEnableSignature |-> None, validatorInitData |-> None,
     executorData |-> None,
     validAfter |-> 0, validUntil |-> 0, kernelVersion |-> KernelVersionParam,
     entryPointVersion |-> "v0.6"]

ManagerIdle ==
    /\ params = IdleParams
    /\ phase = "new"
    /\ executorData = defaultExecutorData
    /\ pluginEnableSignature = None
    /\ chain = FreshChain
    /\ typedSigns = 0
    /\ keys = NoKeys
    /\ last = NoCall
    /\ flights = NoFlights

\* what the passkey server answers to register/verify and login/verify
Registrations == [verified : BOOLEAN, publicKey : BOOLEAN]

InitValidators ==
    /\ ManagerIdle
    /\ pk = NoPasskey
    /\ ec \in {[NoAccount(s) EXCEPT !.code = c] : s \in Storages, c \in Bytecodes}
    /\ vlast = NoVCall
    /\ mk = NoMerkle

\* the record of a completed call; verified is the verdict of the call's
\* remote verification (or whether the signer signed)
VOutcome(target, op, r, verified, ceremony) ==
    [target |-> target, op |-> op, ok |-> r.ok, err |-> r.err, val |-> r.val,
     trace |-> r.trace, verified |-> verified, ceremony |-> ceremony]

CreatePasskeyValidator(registration) ==
    LET r == createPasskeyValidator(registration) IN
    /\ pk.stage # "ready"
    /\ pk' = [stage |-> IF r.ok THEN "ready" ELSE "failed", ctor |-> "create"]
    /\ vlast' = VOutcome("passkey", "createPasskeyValidator", r,
                         registration.verified, NoCeremony)
    /\ UNCHANGED <<ec, mk>>
    /\ UNCHANGED managerVars

GetPasskeyValidator(login) ==
    LET r == getPasskeyValidator(login) IN
    /\ pk.stage # "ready"
    /\ pk' = [stage |-> IF r.ok THEN "ready" ELSE "failed", ctor |-> "get"]
    /\ vlast' = VOutcome("passkey", "getPasskeyValidator", r, login.verified,
                         NoCeremony)
    /\ UNCHANGED <<ec, mk>>
    /\ UNCHANGED managerVars

\* a call on the passkey validator that one of the constructors returned
PasskeyCall(op, r, verified, ceremony) ==
    /\ pk.stage = "ready"
    /\ vlast' = VOutcome("passkey", op, r, verified, ceremony)
    /\ UNCHANGED <<pk, ec, mk>>
    /\ UNCHANGED managerVars

PasskeySignMessage(ceremony) ==
    PasskeyCall("signMessage", passkeySignMessage(ceremony),
                ceremony.success, ceremony)

PasskeySignTypedData(ceremony) ==
    PasskeyCall("signTypedData", passkeySignTypedData(ceremony),
                ceremony.success, ceremony)

PasskeySignUserOperation(userOperation, ceremony) ==
    PasskeyCall("signUserOperation",
                passkeySignUserOperation(userOperation, ceremony),
                ceremony.success, ceremony)

PasskeySignTransaction(transaction) ==
    PasskeyCall("signTransaction", passkeySignTransaction(transaction),
                TRUE, NoCeremony)

PasskeyGetDummySignature ==
    PasskeyCall("getDummySignature", passkeyGetDummySignature, TRUE, NoCeremony)

SignerToEcdsaKernelSmartAccount(signer, deployedAccountAddress) ==
    LET r == signerToEcdsaKernelSmartAccount(signer, deployedAccountAddress,
                                             ec.storage)
    IN /\ ec.stage # "ready"
       /\ ec' = [ec EXCEPT !.stage = IF r.ok THEN "ready" ELSE "failed",
                           !.signer = signer,
                           !.deployed = deployedAccountAddress,
                           !.address = r.val]
       /\ vlast' = VOutcome("ecdsa", "signerToEcdsaKernelSmartAccount", r,
                            TRUE, NoCeremony)
       /\ UNCHANGED <<pk, mk>>
       /\ UNCHANGED managerVars

\* a call on the ECDSA kernel smart account
EcdsaCall(target, op, r, verified) ==
    /\ ec.stage = "ready"
    /\ vlast' = VOutcome(target, op, r, verified, NoCeremony)
    /\ UNCHANGED <<pk, ec, mk>>
    /\ UNCHANGED managerVars

EcdsaSignUserOperation(userOperation, signerOk) ==
    EcdsaCall("ecdsa", "signUserOperation",
              ecdsaSignUserOperation(ec.signer, userOperation, signerOk), signerOk)

EcdsaGetDummySignature ==
    EcdsaCall("ecdsa", "getDummySignature", ecdsaGetDummySignature, TRUE)

EcdsaSignTransaction(transaction) ==
    EcdsaCall("ecdsa", "signTransaction", ecdsaSignTransaction(transaction), TRUE)

EcdsaGetInitCode ==
    EcdsaCall("ecdsa", "getInitCode", ecdsaGetInitCode(ec.signer, ec.code), TRUE)

\* the account is deployed: from now on there is code at its address.  The
\* record of the last call is dropped, so that a recorded outcome always
\* belongs to the current chain state.
DeployEcdsaAccount ==
    /\ ec.stage = "ready"
    /\ ec.code = None
    /\ ec' = [ec EXCEPT !.code = Some(<<54, 61, 61, 55>>)]
    /\ vlast' = NoVCall
    /\ UNCHANGED <<pk, mk>>
    /\ UNCHANGED managerVars

\* signTransaction on viemSigner, the local signer as the account wraps it
ViemSignerSignTransaction(transaction) ==
    /\ ec.signer.type = "local"
    /\ EcdsaCall("signer", "signTransaction",
                 viemSignerSignTransaction(transaction), TRUE)

NextValidators ==
    \/ \E registration \in Registrations : CreatePasskeyValidator(registration)
    \/ \E login \in Registrations : GetPasskeyValidator(login)
    \/ \E ceremony \in Ceremonies : PasskeySignMessage(ceremony)
    \/ \E ceremony \in Ceremonies : PasskeySignTypedData(ceremony)
    \/ \E op \in UserOperations, ceremony \in Ceremonies :
           PasskeySignUserOperation(op, ceremony)
    \/ \E tx \in Transactions : PasskeySignTransaction(tx)
    \/ PasskeyGetDummySignature
    \/ \E signer \in Signers, deployed \in DeployedChoices :
           SignerToEcdsaKernelSmartAccount(signer, deployed)
    \/ \E op \in UserOperations, signerOk \in BOOLEAN :
           EcdsaSignUserOperation(op, signerOk)
    \/ EcdsaGetDummySignature
    \/ EcdsaGetInitCode
    \/ DeployEcdsaAccount
    \/ \E tx \in Transactions : EcdsaSignTransaction(tx)
    \/ \E tx \in Transactions : ViemSignerSignTransaction(tx)

SpecValidators == InitValidators /\ [][NextValidators]_vars

----------------------------------------------------------------------------
(* State machine of the multi-chain dummy signature *)

ChainIds == {1, ChainId}
EntryPoints == {ENTRYPOINT_ADDRESS_V06, ENTRYPOINT_ADDRESS_V07}

InitMerkle ==
    /\ ManagerIdle
    /\ pk = NoPasskey
    /\ ec = NoAccount([a \in {DeployedAccount} |-> zeroAddress])
    /\ vlast = NoVCall
    /\ \E op \in UserOperations, n \in 1..MaxNumOfUserOps,
          e \in EntryPoints, c \in ChainIds :
           mk = [NoMerkle EXCEPT !.stage = "input", !.userOperation = op,
                                 !.numOfUserOps = n, !.entryPoint = e,
                                 !.chainId = c]

\* the proof a verifier decodes from the envelope: the elements after the
\* signature, the root, the leaf hash, the array's offset and its length
decodeProof(envelope) ==
    [i \in 1..(Len(envelope) - 5) |-> envelope[5 + i].hash]

\* getMultiUserOpDummySignature(userOperation, numOfUserOps, entryPoint,
\* chainId); the proof is then presented to a verifier
GetMultiUserOpDummySignature ==
    LET out == getMultiUserOpDummySignature(mk.userOperation, mk.numOfUserOps,
                                            mk.entryPoint, mk.chainId)
    IN /\ mk.stage = "input"
       /\ mk' = [mk EXCEPT !.stage = "done",
                           !.leaves = leaves(getUserOperationHash(mk.userOperation,
                                                 mk.entryPoint, mk.chainId),
                                             mk.numOfUserOps),
                           !.out = out,
                           !.presented = decodeProof(out)]
       /\ UNCHANGED validatorVars
       /\ UNCHANGED managerVars

\* hash values by which an element of the presented proof may be replaced
TamperValues ==
    {getUserOperationHash(mk.userOperation, mk.entryPoint, mk.chainId),
     dummyUserOpHash,
     hashPair(dummyUserOpHash, dummyUserOpHash),
     mk.out[2].hash,
     Hash32(<<Rep(32, 1)>>)}

\* one element of the presented proof is changed
TamperProof ==
    /\ mk.stage = "done"
    /\ \E i \in DOMAIN mk.presented, h \in TamperValues :
           /\ h # mk.presented[i]
           /\ mk' = [mk EXCEPT !.presented[i] = h]
    /\ UNCHANGED validatorVars
    /\ UNCHANGED managerVars

NextMerkle ==
    \/ GetMultiUserOpDummySignature
    \/ TamperProof

SpecMerkle == InitMerkle /\ [][NextMerkle]_vars

----------------------------------------------------------------------------
(* State machine of overlapping calls on one plugin manager *)

\* getPluginEnableSignature is an async function: it runs up to an await,
\* is suspended there, and other calls on the same manager run meanwhile.
\* A flight is one such call; its pc names the await it is suspended at.

\* a constructed manager, no call made yet
InitOverlap ==
    /\ params \in [sudo : SudoChoices,
                   regular : RegularChoices,
                   pluginEnableSignature : EnableSignatureChoices,
                   validatorInitData : {None},
                   executorData : ExecutorDataChoices,
                   validAfter : {0},
                   validUntil : {0},
                   kernelVersion : {KernelVersionParam},
                   entryPointVersion : EntryPointVersions]
    /\ IsSome(params.sudo) \/ IsSome(params.regular)
    /\ (params.sudo = Some(SudoPasskey) => params.entryPointVersion = "v0.6")
    /\ phase = "ready"
    /\ executorData = normalizedExecutorData
    /\ pluginEnableSignature = params.pluginEnableSignature
    /\ chain = FreshChain
    /\ typedSigns = 0
    /\ keys = NoKeys
    /\ last = NoCall
    /\ flights = NoFlights
    /\ OthersIdle

\* a step of flight i; the other flights and the manager's constants stay
Flight(i, f) ==
    /\ phase = "ready"
    /\ flights' = [flights EXCEPT ![i] = f]
    /\ UNCHANGED <<params, phase, executorData, chain, keys, last>>
    /\ UNCHANGED <<pk, ec, vlast, mk>>

\* sudo.signTypedData(typedData) is invoked by flight i (lines 161, 174)
InvokeSignTypedData(i, version, typedData) ==
    /\ typedSigns < MaxTypedSigns
    /\ typedSigns' = typedSigns + 1
    /\ Flight(i, [flights[i] EXCEPT !.pc = "sudo.signTypedData",
                                    !.version = version,
                                    !.typed = Some(typedData),
                                    !.signed = TRUE])

\* lines 138-145: the call starts, looks at the cache and at the two
\* validators, and is suspended at the read of the account's metadata
BeginGetPluginEnableSignature(i, accountAddress) ==
    /\ flights[i].pc = "idle"
    /\ UNCHANGED <<pluginEnableSignature, typedSigns>>
    /\ LET f == [flights[i] EXCEPT !.account = accountAddress] IN
       IF Truthy(pluginEnableSignature)
       THEN Flight(i, [f EXCEPT !.pc = "returned",
                                !.val = Get(pluginEnableSignature)])
       ELSE IF ~IsSome(sudo)
       THEN Flight(i, [f EXCEPT !.pc = "thrown", !.ok = FALSE,
                                !.err = ErrSudoNotSet, !.emptyAtStart = TRUE])
       ELSE IF ~IsSome(regular)
       THEN Flight(i, [f EXCEPT !.pc = "thrown", !.ok = FALSE,
                                !.err = ErrRegularNotSet, !.emptyAtStart = TRUE])
       ELSE Flight(i, [f EXCEPT !.pc = "accountMetadata", !.emptyAtStart = TRUE])

\* ResumeAccountMetadata returning the cache when another call filled it
\* meanwhile, instead of signing again
ResumeAccountMetadata_SingleFlight(i) ==
    LET version == chain.kernelVersion
        f == flights[i]
    IN
    /\ f.pc = "accountMetadata"
    /\ UNCHANGED pluginEnableSignature
    /\ IF Truthy(pluginEnableSignature)
       THEN /\ UNCHANGED typedSigns
            /\ Flight(i, [f EXCEPT !.pc = "returned",
                                   !.val = Get(pluginEnableSignature)])
       ELSE IF ~chain.rpcOk
       THEN /\ UNCHANGED typedSigns
            /\ Flight(i, [f EXCEPT !.pc = "thrown", !.ok = FALSE, !.err = ErrRead])
       ELSE IF entryPointVersion = "v0.6"
       THEN InvokeSignTypedData(i, version,
                getPluginsEnableTypedDataV1(f.account, ChainId,
                    IF IsSome(version) THEN version ELSE kernelVersion,
                    executorData, Get(regular), validUntil, validAfter))
       ELSE /\ UNCHANGED typedSigns
            /\ Flight(i, [f EXCEPT !.pc = "getKernelV3Nonce", !.version = version])

\* lines 145-161 and 165: accountMetadata resolves; under v0.6 the typed
\* data is built and sudo.signTypedData invoked, under v0.7 the call is
\* suspended again at the read of the validator nonce
ResumeAccountMetadata(i) ==
    LET version == chain.kernelVersion
        f == flights[i]
    IN
    /\ f.pc = "accountMetadata"
    /\ UNCHANGED pluginEnableSignature
    /\ IF ~chain.rpcOk
       THEN /\ UNCHANGED typedSigns
            /\ Flight(i, [f EXCEPT !.pc = "thrown", !.ok = FALSE, !.err = ErrRead])
       ELSE IF entryPointVersion = "v0.6"
       THEN InvokeSignTypedData(i, version,
                getPluginsEnableTypedDataV1(f.account, ChainId,
                    IF IsSome(version) THEN version ELSE kernelVersion,
                    executorData, Get(regular), validUntil, validAfter))
       ELSE /\ UNCHANGED typedSigns
            /\ Flight(i, [f EXCEPT !.pc = "getKernelV3Nonce", !.version = version])

\* lines 165-174: getKernelV3Nonce resolves, the typed data is built and
\* sudo.signTypedData invoked
ResumeGetKernelV3Nonce(i) ==
    LET f == flights[i] IN
    /\ f.pc = "getKernelV3Nonce"
    /\ UNCHANGED pluginEnableSignature
    /\ IF ~chain.rpcOk
       THEN /\ UNCHANGED typedSigns
            /\ Flight(i, [f EXCEPT !.pc = "thrown", !.ok = FALSE, !.err = ErrRead])
       ELSE InvokeSignTypedData(i, f.version,
                getPluginsEnableTypedDataV2(f.account, ChainId, f.version,
                    executorData, Get(regular), chain.validatorNonce))

\* lines 161-163 and 174-176: sudo.signTypedData resolves; the v0.6 branch
\* stores the signature in pluginEnableSignature, both return it
ResumeSignTypedData(i) ==
    LET f == flights[i]
        ownerSig == signTypedData(Get(sudo), Get(f.typed))
    IN
    /\ f.pc = "sudo.signTypedData"
    /\ pluginEnableSignature' = IF entryPointVersion = "v0.6"
                                THEN Some(ownerSig)
                                ELSE pluginEnableSignature
    /\ UNCHANGED typedSigns
    /\ Flight(i, [f EXCEPT !.pc = "returned", !.val = ownerSig])

\* the overlapping calls, next to the manager's other operations
NextOverlap ==
    \/ \E i \in 1..MaxFlights, a \in Accounts : BeginGetPluginEnableSignature(i, a)
    \/ \E i \in 1..MaxFlights : ResumeAccountMetadata(i)
    \/ \E i \in 1..MaxFlights : ResumeGetKernelV3Nonce(i)
    \/ \E i \in 1..MaxFlights : ResumeSignTypedData(i)
    \/ \E op \in UserOperations, signerOk \in BOOLEAN : SignUserOperation(op, signerOk)
    \/ \E op \in UserOperations : GetDummySignature(op)
    \/ \E a \in Accounts \cup {zeroAddress} : GetNonceKey(a)

SpecOverlap == InitOverlap /\ [][NextOverlap]_vars

----------------------------------------------------------------------------
(* State machine of the validator init data *)

\* the parameters of toKernelPluginManager, validatorInitData among them
InitValidatorInitData ==
    /\ params \in [sudo : SudoChoices,
                   regular : RegularChoices,
                   pluginEnableSignature : EnableSignatureChoices,
                   validatorInitData : ValidatorInitDataChoices,
                   executorData : ExecutorDataChoices,
                   validAfter : {0},
                   validUntil : {0},
                   kernelVersion : {KernelVersionParam},
                   entryPointVersion : EntryPointVersions]
    /\ (params.sudo = Some(SudoPasskey) => params.entryPointVersion = "v0.6")
    /\ phase = "new"
    /\ executorData = defaultExecutorData
    /\ pluginEnableSignature = params.pluginEnableSignature
    /\ chain = FreshChain
    /\ typedSigns = 0
    /\ keys = NoKeys
    /\ last = NoCall
    /\ flights = NoFlights
    /\ OthersIdle

GetValidatorInitData ==
    /\ Call("getValidatorInitData", <<>>, <<>>, TRUE, getValidatorInitData)
    /\ UNCHANGED keys

NextValidatorInitData ==
    \/ Construct
    \/ GetValidatorInitData

SpecValidatorInitData == InitValidatorInitData /\ [][NextValidatorInitData]_vars

----------------------------------------------------------------------------
(* State machine of the plugin manager over further kinds of validators *)

\* the manager with a regular validator that is a passkey validator (v0.6
\* only), has a wide nonce key or has a long identifier
InitValidatorKinds ==
    /\ params \in [sudo : {None, Some(SudoValidator)},
                   regular : {Some(RegularPasskey), Some(RegularWideKey),
                              Some(RegularLongIdentifier)},
                   pluginEnableSignature : EnableSignatureChoices,
                   validatorInitData : {None},
                   executorData : ExecutorDataChoices,
                   validAfter : {0},
                   validUntil : {0},
                   kernelVersion : {KernelVersionParam},
                   entryPointVersion : EntryPointVersions]
    /\ (params.regular = Some(RegularPasskey) => params.entryPointVersion = "v0.6")
    /\ phase = "new"
    /\ executorData = defaultExecutorData
    /\ pluginEnableSignature = params.pluginEnableSignature
    /\ chain = FreshChain
    /\ typedSigns = 0
    /\ keys = NoKeys
    /\ last = NoCall
    /\ flights = NoFlights
    /\ OthersIdle

SpecValidatorKinds == InitValidatorKinds /\ [][Next]_vars

----------------------------------------------------------------------------
(* Properties *)

\* the user operation of the last call
LastUserOperation == [sender |-> last.account, callData |-> last.callData]

\* the regular validator is enabled on chain for the account and selector
EnabledForSelector(account, selector) == <<account, selector>> \in chain.enabled

\* the enable signature the last call had at hand: the cached or
\* pre-supplied one, else the one sudo signed during the call
EnableSignatureAtHand ==
    IF IsSome(last.cacheBefore)
    THEN last.cacheBefore
    ELSE IF IsSome(last.typed)
    THEN Some(signTypedData(Get(sudo), Get(last.typed)))
    ELSE None

\* the enable signature embedded in a v0.6 ENABLE envelope: the
\* length-prefixed field after mode(4), account(20), validUntil(6),
\* validAfter(6), validator(20) and executor(20)
EmbeddedEnableSignatureV1(envelope) ==
    SubSeq(envelope, 78, 77 + envelope[77])

\* the enable signature embedded in a v0.7 enable envelope: its first,
\* length-prefixed field
EmbeddedEnableSignatureV2(envelope) ==
    SubSeq(envelope, 2, 1 + envelope[1])

\* C1: toKernelPluginManager fails with the configuration error when neither
\* a sudo nor a regular validator is supplied; a constructed manager holds at
\* least one validator and none of its operations ends in the
\* "no validator" error.
C1_AtLeastOneValidator ==
    /\ (phase = "ready" => IsSome(params.sudo) \/ IsSome(params.regular))
    /\ (phase # "new" /\ ~IsSome(params.sudo) /\ ~IsSome(params.regular)
          => phase = "failed" /\ ~last.ok /\ last.err = ErrNoValidator)
    /\ (phase = "ready" => last.err # ErrNoValidator)

C1_Witness ==
    /\ phase = "failed"
    /\ last.op = "toKernelPluginManager"
    /\ last.err = ErrNoValidator

\* C2: under v0.6 a successful signUserOperation returns 0x00000000 ||
\* userOpSignature when there is no regular validator, 0x00000001 ||
\* userOpSignature when the regular validator is enabled for the sender and
\* the first 4 bytes of the callData, and an envelope beginning with
\* 0x00000002 otherwise; no other prefix is produced.
C2_ModeRuleV06 ==
    (phase = "ready" /\ last.op = "signUserOperation" /\ last.ok
       /\ params.entryPointVersion = "v0.6")
    => LET userOpSig == validatorSignUserOperation(Get(activeValidator),
                                                   LastUserOperation)
       IN IF ~IsSome(params.regular)
          THEN last.val = <<0, 0, 0, 0>> \o userOpSig
          ELSE IF EnabledForSelector(last.account, SubSeq(last.callData, 1, 4))
          THEN last.val = <<0, 0, 0, 1>> \o userOpSig
          ELSE SubSeq(last.val, 1, 4) = <<0, 0, 0, 2>>

C2_Witness ==
    /\ phase = "ready" /\ last.op = "signUserOperation" /\ last.ok
    /\ params.entryPointVersion = "v0.6"
    /\ IsSome(params.regular)
    /\ chain.enabled # {}
    /\ ~EnabledForSelector(last.account, SubSeq(last.callData, 1, 4))
    /\ SubSeq(last.val, 1, 4) = <<0, 0, 0, 2>>

\* the last call was in ENABLE mode: a regular validator is configured and
\* is not enabled (v0.6: for the operation's selector; v0.7: neither for the
\* action selector nor plugin-initialized)
LastCallInEnableMode ==
    /\ phase = "ready"
    /\ last.op \in {"signUserOperation", "getDummySignature"}
    /\ last.signerOk
    /\ IsSome(params.regular)
    /\ IF params.entryPointVersion = "v0.6"
       THEN ~EnabledForSelector(last.account, SubSeq(last.callData, 1, 4))
       ELSE /\ ~EnabledForSelector(last.account, executorData.selector)
            /\ last.account \notin chain.initialized

\* C3: in ENABLE mode, under both versions, signUserOperation and
\* getDummySignature return an envelope only if it embeds a non-empty enable
\* signature; with no enable signature cached, pre-supplied or obtainable the
\* call fails and returns no envelope.
C3_EnableSignatureRequired ==
    LastCallInEnableMode
    => /\ last.ok =>
            IF params.entryPointVersion = "v0.6"
            THEN EmbeddedEnableSignatureV1(last.val) # <<>>
            ELSE EmbeddedEnableSignatureV2(last.val) # <<>>
       /\ (~IsSome(last.cacheBefore) /\ ~IsSome(params.sudo))
            => ~last.ok /\ last.val = <<>>

\* C4: under v0.7 a successful signUserOperation returns exactly the active
\* validator's userOpSignature when there is no regular validator or the
\* regular validator is enabled (isEnabled for the action selector, or
\* plugin-initialized); otherwise the structured encoding of (enableSignature,
\* actionSelector, executorAddress, validatorAddress, userOpSignature).
C4_EnvelopeV07 ==
    (phase = "ready" /\ last.op = "signUserOperation" /\ last.ok
       /\ params.entryPointVersion = "v0.7")
    => LET userOpSig == validatorSignUserOperation(Get(activeValidator),
                                                   LastUserOperation)
           enabled == \/ EnabledForSelector(last.account, executorData.selector)
                      \/ last.account \in chain.initialized
       IN IF ~IsSome(params.regular) \/ enabled
          THEN last.val = userOpSig
          ELSE /\ IsSome(EnableSignatureAtHand)
               /\ last.val = LP(Get(EnableSignatureAtHand))
                               \o executorData.selector
                               \o executorData.executor
                               \o Get(params.regular).address
                               \o LP(userOpSig)

C4_Witness ==
    /\ phase = "ready" /\ last.op = "signUserOperation" /\ last.ok
    /\ params.entryPointVersion = "v0.7"
    /\ IsSome(params.regular)
    /\ EnabledForSelector(last.account, SubSeq(last.callData, 1, 4))
    /\ ~EnabledForSelector(last.account, executorData.selector)
    /\ last.account \notin chain.initialized
    /\ Len(last.val) > 44

\* C5: on a manager constructed without a pre-supplied enable signature the
\* sudo validator's typed-data signing is invoked at most once over any
\* sequence of non-overlapping calls, under either entry point version.
C5_SignedAtMostOnce ==
    ~IsSome(params.pluginEnableSignature) => typedSigns <= 1

\* C6: with a non-empty pre-supplied enable signature every
\* getPluginEnableSignature call returns exactly that value, without any
\* signing by sudo and without any chain read, even with no sudo validator.
C6_PreSuppliedWins ==
    (IsSome(params.pluginEnableSignature) /\ Get(params.pluginEnableSignature) # <<>>)
    => /\ pluginEnableSignature = params.pluginEnableSignature
       /\ typedSigns = 0
       /\ (phase = "ready" /\ last.op = "getPluginEnableSignature")
            => /\ last.ok
               /\ last.val = Get(params.pluginEnableSignature)
               /\ last.trace = <<>>

C6_Witness ==
    /\ phase = "ready" /\ last.op = "getPluginEnableSignature"
    /\ IsSome(params.pluginEnableSignature)
    /\ Get(params.pluginEnableSignature) # <<>>
    /\ ~IsSome(params.sudo)
    /\ chain.enabled # {}
    /\ last.val = Get(params.pluginEnableSignature)

\* C7: when an enable signature must be generated (none pre-supplied, none
\* cached) getPluginEnableSignature fails with the missing-sudo-validator
\* error without a sudo validator and with the missing-regular-validator
\* error without a regular validator; nothing is signed and the cache stays
\* empty.
C7_MissingValidatorErrors ==
    (phase = "ready" /\ last.op = "getPluginEnableSignature"
       /\ ~IsSome(last.cacheBefore))
    => /\ ~IsSome(params.sudo)
            => /\ ~last.ok /\ last.err = ErrSudoNotSet
               /\ Count(last.trace, "sudo.signTypedData") = 0
               /\ typedSigns = 0
               /\ ~IsSome(pluginEnableSignature)
       /\ ~IsSome(params.regular)
            => /\ ~last.ok /\ last.err = ErrRegularNotSet
               /\ Count(last.trace, "sudo.signTypedData") = 0
               /\ typedSigns = 0
               /\ ~IsSome(pluginEnableSignature)

C7_Witness ==
    /\ phase = "ready" /\ last.op = "getPluginEnableSignature"
    /\ ~IsSome(last.cacheBefore)
    /\ ~IsSome(params.sudo)
    /\ last.err = ErrSudoNotSet
    /\ ~IsSome(pluginEnableSignature)

\* the manager's validity window
ValidityWindow == [validAfter |-> params.validAfter, validUntil |-> params.validUntil]

\* the typed data names the manager's action and its regular validator
NamesActionAndValidator(td) ==
    /\ td.action = executorData
    /\ td.validator \in {Get(params.regular).address,
                          VALIDATOR_TYPE[Get(params.regular).validatorType]
                              \o Get(params.regular).identifier}

\* C8 (as stated): for both entry point versions the typed data sudo signs
\* contains the action, the regular validator and the manager's validity
\* window, so that managers differing only in the window sign different
\* payloads.
C8_WindowAlwaysSigned ==
    (phase = "ready" /\ IsSome(last.typed))
    => LET td == Get(last.typed)
       IN /\ NamesActionAndValidator(td)
          /\ td.validity = Some(ValidityWindow)

\* C8 (amended): the typed data always contains the action and the regular
\* validator; under v0.6 it also contains the validity window, under v0.7 it
\* contains the account's validator nonce and no validity window.
C8_WindowSignedUnderV06 ==
    (phase = "ready" /\ IsSome(last.typed))
    => LET td == Get(last.typed)
       IN /\ NamesActionAndValidator(td)
          /\ params.entryPointVersion = "v0.6"
               => td.validity = Some(ValidityWindow)
          /\ params.entryPointVersion = "v0.7"
               => /\ td.validity = None
                  /\ td.validatorNonce = Some(chain.validatorNonce)

C8_Witness ==
    /\ phase = "ready" /\ IsSome(last.typed)
    /\ params.entryPointVersion = "v0.6"
    /\ params.validUntil # params.validAfter
    /\ Get(last.typed).validity = Some(ValidityWindow)

\* the nonce key as the big-endian integer of mode || type || identifier ||
\* subKey(2) of the active validator
NonceKeyOf(mode) ==
    LET v == Get(activeValidator)
        type == IF IsSome(params.regular)
                THEN VALIDATOR_TYPE[Get(params.regular).validatorType]
                ELSE VALIDATOR_TYPE.SUDO
    IN BigInt(mode \o type \o v.identifier
                   \o <<v.nonceKey \div 256, v.nonceKey % 256>>)

LastNonceKeyV07 ==
    /\ phase = "ready" /\ last.op = "getNonceKey" /\ last.ok
    /\ params.entryPointVersion = "v0.7"

Bytes24(key) == Rep(24 - Len(key), 0) \o key

\* C10: deriving the key again for a mode yields the same 24 bytes, and the
\* keys of one validator for the two modes differ in the first of the 24
\* bytes and in no other.
C10_ModeLocal ==
    [][ /\ \A m \in {"DEFAULT", "ENABLE"} :
              IsSome(keys[m]) => keys'[m] = keys[m]
        /\ (IsSome(keys'.DEFAULT) /\ IsSome(keys'.ENABLE))
              => LET d == Bytes24(Get(keys'.DEFAULT))
                     e == Bytes24(Get(keys'.ENABLE))
                 IN /\ d[1] # e[1]
                    /\ \A i \in 2..24 : d[i] = e[i] ]_vars

\* the mode a result of signUserOperation or getDummySignature shows: under
\* v0.6 the four-byte prefix, under v0.7 whether the result is the bare
\* signature of the active validator or an enable envelope around it
SelectedMode(val, userOpSig) ==
    IF entryPointVersion = "v0.6" THEN SubSeq(val, 1, 4)
    ELSE IF val = userOpSig THEN VALIDATOR_MODE_DEFAULT
    ELSE VALIDATOR_MODE_ENABLE

\* C11: signUserOperation and getDummySignature, called on the same user
\* operation in the same on-chain state, show the same mode and return byte
\* strings of the same length: when one of them has returned, the other one
\* called next returns, with the same mode and the same length.
C11_DummyMatchesGenuine ==
    (phase = "ready" /\ last.ok /\ last.op \in {"signUserOperation", "getDummySignature"})
        => LET op == LastUserOperation
               v == Get(activeValidator)
               genuineSig == validatorSignUserOperation(v, op)
               dummySig == validatorGetDummySignature(v, op)
               genuine == IF last.op = "signUserOperation"
                          THEN [ok |-> TRUE, val |-> last.val]
                          ELSE signUserOperation(op, TRUE)
               dummy == IF last.op = "getDummySignature"
                        THEN [ok |-> TRUE, val |-> last.val]
                        ELSE getDummySignature(op)
           IN /\ genuine.ok /\ dummy.ok
              /\ SelectedMode(genuine.val, genuineSig) = SelectedMode(dummy.val, dummySig)
              /\ Len(genuine.val) = Len(dummy.val)

\* C12: the dummy signature of a validator has exactly the length of a
\* genuine signature from its signUserOperation: 4 + 65 bytes for the ECDSA
\* kernel account, and for the passkey validator the length of the encoding
\* that the signing ceremony produced, whatever authenticator data and
\* client-data JSON the ceremony returned.
C12_DummyLengthExact ==
    (vlast.op = "signUserOperation" /\ vlast.ok)
        => /\ vlast.target = "ecdsa"
                => /\ Len(vlast.val) = 4 + 65
                   /\ Len(ecdsaGetDummySignature.val) = 4 + 65
           /\ vlast.target = "passkey"
                => Len(vlast.val) = Len(passkeyGetDummySignature.val)

\* the steps of the last call on a validator or account
Steps == {vlast.trace[i] : i \in DOMAIN vlast.trace}
LastStep == IF vlast.trace = <<>> THEN "" ELSE vlast.trace[Len(vlast.trace)]

\* C13: each remote ceremony of the passkey validator is gated by its verify
\* response: createPasskeyValidator yields no validator unless
\* register/verify reported verified, getPasskeyValidator none unless
\* login/verify reported verified, signMessage (and with it
\* signUserOperation and signTypedData) no signature unless sign-verify
\* reported success; the unverified call fails with the error of its
\* ceremony right after the verify step, before any key import or encoding.
C13_VerifyGates ==
    /\ (vlast.op = "createPasskeyValidator" /\ ~vlast.verified)
          => /\ ~vlast.ok /\ vlast.err = ErrRegistrationNotVerified
             /\ pk.stage = "failed"
             /\ LastStep = "register/verify"
             /\ "importKey" \notin Steps
    /\ (vlast.op = "getPasskeyValidator" /\ ~vlast.verified)
          => /\ ~vlast.ok /\ vlast.err = ErrLoginNotVerified
             /\ pk.stage = "failed"
             /\ LastStep = "login/verify"
             /\ "importKey" \notin Steps
    /\ (/\ vlast.target = "passkey"
        /\ vlast.op \in {"signMessage", "signUserOperation", "signTypedData"}
        /\ ~vlast.verified)
          => /\ ~vlast.ok /\ vlast.err = ErrSignatureNotVerified
             /\ vlast.val = <<>>
             /\ LastStep = "sign-verify"
             /\ Steps \cap {"parseAndNormalizeSig", "encodeAbiParameters"} = {}
    /\ pk.stage = "ready"
          => \/ vlast.op \notin {"createPasskeyValidator", "getPasskeyValidator"}
             \/ vlast.verified

\* a validator obtained by login whose signUserOperation met an assertion
\* that sign-verify did not accept
C13_Witness ==
    /\ pk = [stage |-> "ready", ctor |-> "get"]
    /\ vlast.target = "passkey" /\ vlast.op = "signUserOperation"
    /\ ~vlast.verified /\ ~vlast.ok

\* C14: signTransaction always fails with the sign-transaction-not-supported
\* error and returns no signature, for every transaction: on the passkey
\* validator of either constructor, on the ECDSA kernel smart account and on
\* the local signer as that account wraps it.
C14_SignTransactionUnsupported ==
    vlast.op = "signTransaction"
        => /\ vlast.target \in {"passkey", "ecdsa", "signer"}
           /\ ~vlast.ok
           /\ vlast.err = ErrSignTransactionNotSupported
           /\ vlast.val = <<>>

\* signTransaction was called on the ECDSA kernel smart account built
\* around a local signer
C14_Witness ==
    /\ vlast.op = "signTransaction" /\ vlast.target = "ecdsa"
    /\ ec.stage = "ready" /\ ec.signer.type = "local"
    /\ ~vlast.ok

\* the number that the k-th 32-byte word of an encoding holds
RECURSIVE BigEndian(_)
BigEndian(bytes) ==
    IF bytes = <<>> THEN 0
    ELSE 256 * BigEndian(SubSeq(bytes, 1, Len(bytes) - 1)) + bytes[Len(bytes)]
WordAt(encoding, k) == BigEndian(SubSeq(encoding, 32 * (k - 1) + 1, 32 * k))

\* C15: the s written into the encoded passkey signature (its fifth word) is
\* in the lower half of the curve order: curveOrder - s when the relay's s
\* exceeds curveOrder / 2, the relay's s otherwise; the r written (the
\* fourth word) is the relay's r.
C15_LowerS ==
    (/\ vlast.target = "passkey" /\ vlast.ok
     /\ vlast.op \in {"signMessage", "signUserOperation", "signTypedData"})
        => LET sig == vlast.ceremony.signature IN
           /\ WordAt(vlast.val, 4) = sig.r
           /\ WordAt(vlast.val, 5) =
                  IF 2 * sig.s > CurveOrder THEN CurveOrder - sig.s ELSE sig.s
           /\ 2 * WordAt(vlast.val, 5) <= CurveOrder

\* a signature was encoded whose s the relay returned in the upper half
C15_Witness ==
    /\ vlast.target = "passkey" /\ vlast.ok /\ vlast.op = "signMessage"
    /\ 2 * vlast.ceremony.signature.s > CurveOrder
    /\ WordAt(vlast.val, 5) = CurveOrder - vlast.ceremony.signature.s

\* the real leaf of the aggregation at hand, the root and the proof that the
\* returned envelope embeds
RealHash == getUserOperationHash(mk.userOperation, mk.entryPoint, mk.chainId)
EmbeddedRoot == mk.out[2].hash
EmbeddedProof == decodeProof(mk.out)

\* verification of an inclusion proof under sorted-pair hashing: fold the
\* proof onto the leaf and compare with the root
RECURSIVE processProof(_, _)
processProof(node, proof) ==
    IF proof = <<>> THEN node
    ELSE processProof(hashPair(node, Head(proof)), Tail(proof))
VerifyProof(leaf, proof, root) == processProof(leaf, proof) = root

\* C16: for every real hash and every number of user operations from 1 on,
\* the embedded proof verifies the real leaf against the embedded root under
\* sorted-pair hashing, and a presented proof that differs from it in any
\* element does not verify.
C16_ProofRoundTrip ==
    mk.stage = "done"
        => /\ VerifyProof(RealHash, EmbeddedProof, EmbeddedRoot)
           /\ VerifyProof(RealHash, mk.presented, EmbeddedRoot)
                  <=> mk.presented = EmbeddedProof

\* a proof of the largest aggregation was changed in some element
C16_Witness ==
    /\ mk.stage = "done" /\ mk.numOfUserOps = MaxNumOfUserOps
    /\ mk.presented # EmbeddedProof
    /\ ~VerifyProof(RealHash, mk.presented, EmbeddedRoot)

\* C17 as stated: for three user operations the leaves are the real hash and
\* two placeholders, the root differs from the real hash, and the proof of
\* the real leaf has one element.
C17_ProofLengthOne ==
    (mk.stage = "done" /\ mk.numOfUserOps = 3)
        => /\ mk.leaves = <<RealHash, dummyUserOpHash, dummyUserOpHash>>
           /\ EmbeddedRoot # RealHash
           /\ Len(EmbeddedProof) = 1

\* C17: for three user operations the leaves are the real hash and two
\* placeholders, the root differs from the real hash, and the proof of the
\* real leaf has two elements: its neighbour leaf and the third leaf, which
\* moved up unpaired.
C17_ProofLengthTwo ==
    (mk.stage = "done" /\ mk.numOfUserOps = 3)
        => /\ mk.leaves = <<RealHash, dummyUserOpHash, dummyUserOpHash>>
           /\ EmbeddedRoot # RealHash
           /\ EmbeddedProof = <<dummyUserOpHash, dummyUserOpHash>>

\* the dummy signature for three user operations was built
C17_Witness ==
    /\ mk.stage = "done" /\ mk.numOfUserOps = 3
    /\ mk.presented = EmbeddedProof
    /\ Len(mk.leaves) = 3

\* C18: the leaves are the real hash followed by numOfUserOps - 1 copies of
\* the one placeholder hash; the result is the 65-byte signature, then the
\* 32-byte root, then the ABI encoding of the real hash and the proof (the
\* hash, the array's offset, its length, its elements), root and proof being
\* those of that leaf set; the encoded hash is the real one and not the
\* placeholder.
C18_Envelope ==
    mk.stage = "done"
        => LET tree == MerkleTree(mk.leaves)
               proof == getHexProof(tree, RealHash)
           IN /\ Len(mk.leaves) = mk.numOfUserOps
              /\ \A i \in 1..mk.numOfUserOps :
                     mk.leaves[i] = IF i = 1 THEN RealHash ELSE dummyUserOpHash
              /\ Len(mk.out) = 5 + Len(proof)
              /\ mk.out[1] = RawSeg(dummyEcdsaSig) /\ mk.out[1].len = 65
              /\ mk.out[2] = HashSeg(getHexRoot(tree)) /\ mk.out[2].len = 32
              /\ mk.out[3] = HashSeg(RealHash)
              /\ mk.out[3].hash # dummyUserOpHash
              /\ WordAt(mk.out[4].bytes, 1) = 64 /\ mk.out[4].len = 32
              /\ WordAt(mk.out[5].bytes, 1) = Len(proof) /\ mk.out[5].len = 32
              /\ \A i \in 1..Len(proof) : mk.out[5 + i] = HashSeg(proof[i])

\* a dummy signature for several user operations was built
C18_Witness ==
    /\ mk.stage = "done" /\ mk.numOfUserOps = 4
    /\ mk.out[3].hash = RealHash
    /\ Len(mk.out) = 7

\* C19: given an already deployed account address,
\* signerToEcdsaKernelSmartAccount reads the owner recorded on chain for that
\* address; when that owner is not the signer's address it fails with the
\* invalid-owner error and there is no account; when it is, the account's
\* address is the given address and no init code is computed for it.
C19_DeployedOwnerChecked ==
    (vlast.op = "signerToEcdsaKernelSmartAccount" /\ IsSome(ec.deployed))
        => /\ "readContract" \in Steps
           /\ IF ec.storage[Get(ec.deployed)] # ec.signer.address
              THEN /\ ~vlast.ok /\ vlast.err = ErrInvalidOwner
                   /\ ec.stage = "failed" /\ ec.address = <<>>
              ELSE /\ vlast.ok /\ ec.stage = "ready"
                   /\ ec.address = Get(ec.deployed)
                   /\ Steps \cap {"initCodeProvider", "getSenderAddress"} = {}

\* an account was refused because the chain records another owner than
\* the signer for the deployed address
C19_Witness ==
    /\ vlast.op = "signerToEcdsaKernelSmartAccount" /\ IsSome(ec.deployed)
    /\ ec.storage[Get(ec.deployed)] = Owner2 /\ ec.signer.address = Owner1
    /\ ec.stage = "failed"


\* the steps of the last signUserOperation or getDummySignature that failed:
\* the active validator's signing, the enablement read, obtaining the
\* enable signature (no cached or pre-supplied one and either no sudo
\* validator to sign one or the account's metadata cannot be read)
SigningFailed == last.op = "signUserOperation" /\ ~last.signerOk
EnablementReadFailed == IsSome(params.regular) /\ ~chain.rpcOk
EnableSignatureFailed ==
    /\ LastCallInEnableMode
    /\ chain.rpcOk
    /\ ~Truthy(last.cacheBefore)
    /\ ~IsSome(params.sudo)

\* C20: whenever a step of signUserOperation or getDummySignature fails (the
\* active validator's signing, the enablement read, obtaining the enable
\* signature), the call fails with an error and returns no bytes; a call
\* that returns bytes has run every step it needs and returns at least the
\* whole signature of the active validator.
C20_AllOrNothing ==
    (phase = "ready" /\ last.op \in {"signUserOperation", "getDummySignature"})
        => /\ (SigningFailed \/ EnablementReadFailed \/ EnableSignatureFailed)
                => /\ ~last.ok
                   /\ last.err # ""
                   /\ last.val = <<>>
           /\ ~last.ok => last.val = <<>>
           /\ last.ok
                => LET v == Get(activeValidator)
                       userOpSig ==
                           IF last.op = "signUserOperation"
                           THEN validatorSignUserOperation(v, LastUserOperation)
                           ELSE validatorGetDummySignature(v, LastUserOperation)
                   IN /\ Len(last.val) >= Len(userOpSig)
                      /\ params.entryPointVersion = "v0.6"
                            => Len(last.val) >= 4 + Len(userOpSig)

\* a signUserOperation whose validator signed, and whose enablement read
\* then failed, returned an error and no bytes
C20_Witness ==
    /\ phase = "ready"
    /\ last.op = "signUserOperation"
    /\ last.signerOk
    /\ EnablementReadFailed
    /\ ~last.ok /\ last.err = ErrRead /\ last.val = <<>>
    /\ Len(last.trace) = 2

\* a flight that found the cache empty when it started and has got past
\* its reads
PastReads(i) ==
    /\ flights[i].emptyAtStart
    /\ flights[i].pc \in {"sudo.signTypedData", "returned"}

\* C21: the enable-signature cache has no single-flight guard: every
\* getPluginEnableSignature call that started while the cache was empty and
\* got past its reads has invoked sudo.signTypedData itself, whatever
\* another call has stored in the cache meanwhile (so two overlapping calls
\* make two signing ceremonies); and no operation writes any manager state
\* other than this cache.
C21_NoSingleFlight ==
    /\ [](\A i \in 1..MaxFlights : PastReads(i) => flights[i].signed)
    /\ [][UNCHANGED <<params, phase, executorData>>]_vars

\* two calls overlapped on a manager whose cache was empty, and each of
\* them has invoked sudo.signTypedData
C21_Witness ==
    /\ \A i \in 1..2 : flights[i].emptyAtStart /\ flights[i].signed
    /\ flights[1].pc = "returned"
    /\ flights[2].pc = "sudo.signTypedData"
    /\ Truthy(pluginEnableSignature)
    /\ typedSigns = 2

\* the steps of a call in which a validator signs a user operation
UserOpSigning == {"sudo.signUserOperation", "regular.signUserOperation"}

\* C22: within one signUserOperation call the active validator signs the
\* operation only after the enablement query, the mode selection and the
\* acquisition of the enable signature: no step of the call follows the
\* signing, and a call that fails at mode selection or at the enable
\* signature has not had any validator sign the operation.
C22_SigningComesLast ==
    (phase = "ready" /\ last.op = "signUserOperation")
        => /\ \A i, j \in DOMAIN last.trace :
                  (last.trace[i] \in UserOpSigning /\ last.trace[j] \notin UserOpSigning)
                      => j < i
           /\ (~last.ok /\ last.err # ErrValidator)
                  => \A k \in DOMAIN last.trace : last.trace[k] \notin UserOpSigning

\* C23: getNonceKey and getDummySignature have no side effect: in every
\* mode they invoke no typed-data signing by the sudo validator and leave
\* the cached enable signature as it was before the call.
C23_NoSideEffects ==
    (phase = "ready" /\ last.op \in {"getNonceKey", "getDummySignature"})
        => /\ \A k \in DOMAIN last.trace : last.trace[k] # "sudo.signTypedData"
           /\ last.typed = None
           /\ pluginEnableSignature = last.cacheBefore

\* C24: under v0.7, for the account of a successful signUserOperation and
\* the same on-chain state, the first byte of the 24-byte key that
\* getNonceKey returns is ENABLE exactly when the envelope embeds the enable
\* data around the userOp signature, and DEFAULT exactly when the envelope
\* is the bare userOp signature; both follow the predicate "a regular
\* validator is present and is neither enabled for the action selector nor
\* plugin-initialized".
C24_SameModeDecision ==
    (phase = "ready" /\ last.op = "signUserOperation" /\ last.ok
       /\ params.entryPointVersion = "v0.7")
    => LET nk == getNonceKey(last.account)
           userOpSig == validatorSignUserOperation(Get(activeValidator),
                                                   LastUserOperation)
           enableMode == /\ IsSome(params.regular)
                         /\ ~EnabledForSelector(last.account, executorData.selector)
                         /\ last.account \notin chain.initialized
           embeds == /\ Len(last.val) > Len(LP(userOpSig))
                     /\ SubSeq(last.val, Len(last.val) - Len(LP(userOpSig)) + 1,
                               Len(last.val)) = LP(userOpSig)
       IN nk.ok
          => /\ (<<Bytes24(nk.val)[1]>> = VALIDATOR_MODE_ENABLE) <=> embeds
             /\ (<<Bytes24(nk.val)[1]>> = VALIDATOR_MODE_DEFAULT)
                    <=> (last.val = userOpSig)
             /\ embeds <=> enableMode

\* C25: on a manager constructed without executor data, getExecutorData
\* returns the zero address as executor and the default action selector of
\* the manager's own entry point version.
C25_DefaultExecutorData ==
    (phase = "ready" /\ params.executorData = None)
        => /\ getExecutorData.executor = zeroAddress
           /\ getExecutorData.selector = getActionSelector(params.entryPointVersion)

\* the last Len(sig) bytes of an envelope are sig
EndsWith(envelope, sig) ==
    /\ Len(envelope) >= Len(sig)
    /\ SubSeq(envelope, Len(envelope) - Len(sig) + 1, Len(envelope)) = sig

\* C26: in signUserOperation and getDummySignature the user-operation
\* signature (real or dummy) is asked of the regular validator whenever one
\* is configured, and of the sudo validator only when there is none; with
\* both configured the sudo validator signs nothing but the enable typed
\* data; the returned envelope ends with that validator's signature.
C26_RegularSignsUserOperation ==
    (phase = "ready" /\ last.op \in {"signUserOperation", "getDummySignature"})
        => LET steps == {last.trace[k] : k \in DOMAIN last.trace}
               method == IF last.op = "signUserOperation"
                         THEN ".signUserOperation" ELSE ".getDummySignature"
               signer == IF IsSome(params.regular)
                         THEN Get(params.regular) ELSE Get(params.sudo)
               sig == IF last.op = "signUserOperation"
                      THEN validatorSignUserOperation(signer, LastUserOperation)
                      ELSE validatorGetDummySignature(signer, LastUserOperation)
           IN /\ last.trace[1] = signer.name \o method
              /\ signer.name = IF IsSome(params.regular) THEN "regular" ELSE "sudo"
              /\ IsSome(params.regular)
                    => steps \cap {"sudo.signUserOperation", "sudo.getDummySignature"} = {}
              /\ "sudo.signTypedData" \in steps => IsSome(params.regular)
              /\ last.ok => EndsWith(last.val, sig)

\* with both validators configured, a signUserOperation in ENABLE mode had
\* the sudo validator sign the enable typed data and the regular validator
\* sign the user operation
C26_Witness ==
    /\ phase = "ready" /\ last.op = "signUserOperation" /\ last.ok
    /\ IsSome(params.sudo) /\ IsSome(params.regular)
    /\ last.trace[1] = "regular.signUserOperation"
    /\ last.trace[Len(last.trace)] = "sudo.signTypedData"
    /\ EndsWith(last.val, validatorSignUserOperation(Get(params.regular),
                                                      LastUserOperation))

\* C27: getValidatorInitData returns the init data given at construction
\* unchanged; without one, the validatorAddress and the enableData it
\* returns are those of one and the same validator: the sudo validator when
\* one is configured, else the regular validator.
C27_InitDataOfOneValidator ==
    (phase = "ready" /\ last.op = "getValidatorInitData")
        => /\ last.ok
           /\ IF IsSome(params.validatorInitData)
              THEN last.val = <<Get(params.validatorInitData).validatorAddress,
                                Get(params.validatorInitData).enableData>>
              ELSE LET v == IF IsSome(params.sudo)
                            THEN Get(params.sudo) ELSE Get(params.regular)
                   IN last.val = <<v.address, v.enableData>>

\* with both validators configured and no init data given, the sudo
\* validator's address and enable data were returned
C27_Witness ==
    /\ phase = "ready" /\ last.op = "getValidatorInitData"
    /\ IsSome(params.sudo) /\ IsSome(params.regular)
    /\ ~IsSome(params.validatorInitData)
    /\ last.val = <<Get(params.sudo).address, Get(params.sudo).enableData>>

\* C28: getInitCode of the ECDSA kernel smart account returns the empty
\* byte string exactly when there is contract code at the account's address
\* at the time of the call, and otherwise factoryAddress followed by the
\* createAccount call with the account logic, initialize(validator, owner)
\* and the index 0; so after the deployment it returns the empty string.
C28_InitCodeUntilDeployed ==
    (vlast.op = "getInitCode" /\ vlast.target = "ecdsa")
        => /\ vlast.ok
           /\ (vlast.val = <<>>) <=> (IsSome(ec.code) /\ Get(ec.code) # <<>>)
           /\ vlast.val # <<>>
                => /\ vlast.val = FACTORY_ADDRESS \o ACCOUNT_V2_2_LOGIC
                                    \o ECDSA_VALIDATOR \o ec.signer.address
                                    \o Rep(32, 0)
                   /\ "generateInitCode" \in Steps

\* on a deployed account getInitCode returned the empty byte string
C28_Witness ==
    /\ vlast.op = "getInitCode" /\ vlast.target = "ecdsa"
    /\ ec.stage = "ready"
    /\ IsSome(ec.code)
    /\ vlast.val = <<>>

\* C29: under v0.7 every value that getNonceKey returns fits in 24 bytes
\* (is below 2^192) and is the integer of mode, type, identifier and the
\* whole two-byte sub-key; when the active validator's nonce sub-key is
\* 2^16 or more, or the fields make more than 24 bytes, getNonceKey fails
\* and returns no key.
C29_NonceKeyFits ==
    (phase = "ready" /\ last.op = "getNonceKey"
       /\ params.entryPointVersion = "v0.7")
    => LET v == Get(activeValidator) IN
       /\ last.ok
            => /\ Len(last.val) <= 24
               /\ v.nonceKey < 65536
               /\ \E mode \in {VALIDATOR_MODE_DEFAULT, VALIDATOR_MODE_ENABLE} :
                      last.val = NonceKeyOf(mode)
       /\ (v.nonceKey >= 65536 \/ 1 + 1 + Len(v.identifier) + 2 > 24)
            => /\ ~last.ok
               /\ last.val = <<>>
               /\ chain.rpcOk => last.err = ErrSizeExceedsPadding

\* getNonceKey failed on a v0.7 manager for a sub-key of 2^16
C29_Witness ==
    /\ phase = "ready" /\ last.op = "getNonceKey"
    /\ params.entryPointVersion = "v0.7"
    /\ Get(activeValidator).nonceKey = 65536
    /\ ~last.ok /\ last.err = ErrSizeExceedsPadding

\* C30: on a v0.6 manager whose regular validator is a passkey validator,
\* signUserOperation never returns a PLUGIN-mode envelope, whatever the
\* chain records: every envelope is an ENABLE envelope embedding the enable
\* signature at hand, and without a cached or pre-supplied enable signature
\* and without a sudo validator the call fails.
C30_PasskeyNeverPluginMode ==
    (phase = "ready" /\ last.op = "signUserOperation"
       /\ params.entryPointVersion = "v0.6"
       /\ IsSome(params.regular) /\ isPasskey(Get(params.regular)))
    => /\ last.ok
            => /\ SubSeq(last.val, 1, 4) = ValidatorMode_enable
               /\ IsSome(EnableSignatureAtHand)
               /\ EmbeddedEnableSignatureV1(last.val) = Get(EnableSignatureAtHand)
       /\ (~IsSome(last.cacheBefore) /\ ~IsSome(params.sudo)) => ~last.ok

\* the chain records the passkey validator as enabled for the operation's
\* selector, and signUserOperation still returned an ENABLE envelope
C30_Witness ==
    /\ phase = "ready" /\ last.op = "signUserOperation" /\ last.ok
    /\ params.entryPointVersion = "v0.6"
    /\ IsSome(params.regular) /\ isPasskey(Get(params.regular))
    /\ EnabledForSelector(last.account, SubSeq(last.callData, 1, 4))
    /\ SubSeq(last.val, 1, 4) = ValidatorMode_enable

====
